---- MODULE Spec2Model ----
(***************************************************************************)
(* ShowMe canvas: the annotation and canvas-state engine of ShowMeCanvas   *)
(* (pages, undo/redo history, annotations, numbering, gestures, feedback   *)
(* editors), modelled handler by handler.                                  *)
(*                                                                         *)
(* A raster (ImageData, the pixels of the drawing canvas) is the set of    *)
(* ink marks visible on it: the empty set is the white canvas.  A point    *)
(* is a record [x, y] of integer canvas coordinates (scale 1.0).           *)
(* Annotation ids are positive integers handed out by a counter (the code  *)
(* draws them from Date.now() and Math.random(), never twice the same);    *)
(* 0 stands for null.  Sequences are 1-based, so page index i of the code  *)
(* is i + 1 here.                                                          *)
(***************************************************************************)
EXTENDS Integers, Sequences, FiniteSets, TLC

\* ---- bounds of the model ------------------------------------------------
MaxPages == 2            \* pages in the document
MaxCommits == 3          \* saveState calls after construction (Spec)
MaxNumber == 3           \* cap on the numbering counter
MaxPath == 3             \* points accumulated by one highlight gesture
MaxInk == 1              \* distinct ink marks a drawing tool can leave
HistCommits == 17        \* saveState calls after construction (HistSpec)
GestureCommits == 2      \* saveState calls after construction (GestureSpec)
FeedbackCommits == 2     \* saveState calls after construction (FeedbackSpec)
SubmitCommits == 2       \* saveState calls after construction (SubmitSpec)
MaxRequests == 3         \* POST requests the server receives (ServerSpec)
DrawCommits == 2         \* saveState calls after construction (DrawSpec)
PanCommits == 2          \* saveState calls after construction (PanSpec)
MaxPan == 10             \* largest pan offset in either direction (ViewSpec)
LimitPages == 51         \* pages of the document (LimitSpec)
LimitCommits == 51       \* saveState calls after construction (LimitSpec)
LimitSwitch == 2         \* pages the sidebar switches to (LimitSpec)
PageHistCommits == 30    \* saveState calls after construction (PageHistSpec)
DeckPages == 3           \* pages of the document (DeckSpec)
DeckCommits == 4         \* saveState calls after construction (DeckSpec)
ImportCommits == 4       \* saveState calls after construction (ImportSpec)
ProbeCommits == 1        \* saveState calls after construction (ProbeSpec)
ProbeMargin == 15        \* probed pointer positions start this far left of and above 0
ProbeMax == 65           \* greatest coordinate of a probed pointer position

\* ---- program constants --------------------------------------------------
MAX_UNDO_STATES == 15
PIN_RADIUS == 18
LINE_TOLERANCE == 10
PATH_TOLERANCE == 15
BOUNDS_PADDING == 5
CanvasWidth == 1200
MAX_PAGES == 50
MAX_ANNOTATIONS_PER_PAGE == 100
MAX_FEEDBACK_LENGTH == 10000
MAX_GLOBAL_NOTES_LENGTH == 50000
MAX_PAGE_NAME_LENGTH == 200
minScale == 25           \* hundredths, as is every scale
maxScale == 400
scaleStep == 10
FitPadding == 40
CanvasHeight == 800

NoId == 0
NoRequest == [ action |-> "none" ]
NoResult == [ behavior |-> "none" ]
NoPoint == [x |-> 0, y |-> 0]
NoBounds == [x |-> 0, y |-> 0, width |-> 0, height |-> 0]

Pt(px, py) == [x |-> px, y |-> py]

\* pointer positions the environment can deliver: under Spec, under GestureSpec
PointSet == { Pt(10, 10), Pt(40, 40) }
GesturePoints == { Pt(10, 10), Pt(14, 12), Pt(40, 12), Pt(40, 40) }
ProbePoints ==
    { Pt(px, py) : px \in (0 - ProbeMargin)..ProbeMax, py \in (0 - ProbeMargin)..ProbeMax }

\* texts a user enters in the sidebar, and in the popover and the feedback modal
SidebarTexts == { "a" }
EditorTexts == { " b" }

Tools == { "pen", "rect", "circle", "arrow", "text", "eraser" }
AnnotationTypes == { "pin", "area", "arrow", "highlight" }

\* the tool the user picks under Spec beside the initial pen
ToolChoices == { "rect" }

\* a raster is a set of marks: ink left by a drawing tool, the dashed preview
\* of a shape, the imported background image
Mark(kind, i) == <<kind, i>>
BackgroundMark == Mark("bg", 0)
Blank == {}

Min(a, b) == IF a <= b THEN a ELSE b
Max(a, b) == IF a >= b THEN a ELSE b
Abs(a) == IF a >= 0 THEN a ELSE 0 - a

\* String.prototype.trim on the texts of the model
Trim(t) == IF t = " b" THEN "b" ELSE IF t = " " THEN "" ELSE t

\* (a.x - b.x) ** 2 + (a.y - b.y) ** 2, the square of distanceBetweenPoints
DistSq(a, b) == (a.x - b.x) * (a.x - b.x) + (a.y - b.y) * (a.y - b.y)

\* ---- HitTester ------------------------------------------------------------

\* an inBounds without the padding of 5
inBoundsUnpadded(point, bounds) ==
    /\ point.x >= bounds.x
    /\ point.x <= bounds.x + bounds.width
    /\ point.y >= bounds.y
    /\ point.y <= bounds.y + bounds.height

\* HitTester.inBounds
inBounds(point, bounds) ==
    /\ point.x >= bounds.x - BOUNDS_PADDING
    /\ point.x <= bounds.x + bounds.width + BOUNDS_PADDING
    /\ point.y >= bounds.y - BOUNDS_PADDING
    /\ point.y <= bounds.y + bounds.height + BOUNDS_PADDING

\* HitTester.pointToLineDistance(p, a, b) <= tol, on squares: the projection
\* parameter dot / lenSq is clamped to [0, 1] (-1 for a segment of length 0)
pointToLineDistanceLE(p, a, b, tol) ==
    LET A == p.x - a.x
        B == p.y - a.y
        C == b.x - a.x
        D == b.y - a.y
        dot == A * C + B * D
        lenSq == C * C + D * D
    IN  IF lenSq = 0 \/ dot < 0 THEN DistSq(p, a) <= tol * tol
        ELSE IF dot > lenSq THEN DistSq(p, b) <= tol * tol
        ELSE (A * A + B * B) * lenSq - dot * dot <= tol * tol * lenSq

\* HitTester.onLine
onLine(point, start, end) == pointToLineDistanceLE(point, start, end, LINE_TOLERANCE)

\* HitTester.onPath
onPath(point, points) ==
    \E i \in 1..(Len(points) - 1) :
        pointToLineDistanceLE(point, points[i], points[i + 1], PATH_TOLERANCE)

\* HitTester.isHit
isHit(point, ann) ==
    /\ inBounds(point, ann.bounds)
    /\ CASE ann.type = "pin" -> DistSq(point, ann.position) <= PIN_RADIUS * PIN_RADIUS
         [] ann.type = "area" -> TRUE
         [] ann.type = "arrow" -> onLine(point, ann.startPoint, ann.endPoint)
         [] ann.type = "highlight" ->
                Len(ann.points) >= 2 /\ onPath(point, ann.points)
         [] OTHER -> FALSE

\* a HitTester.test whose loop runs forward: the first annotation hit wins
HitTestOldest(point, annotations) ==
    LET hits == { i \in 1..Len(annotations) : isHit(point, annotations[i]) }
    IN  IF hits = {} THEN 0 ELSE CHOOSE i \in hits : \A j \in hits : i <= j

\* HitTester.test: the index of the last annotation of the list that is hit,
\* 0 (null) if none is
HitTest(point, annotations) ==
    LET hits == { i \in 1..Len(annotations) : isHit(point, annotations[i]) }
    IN  IF hits = {} THEN 0 ELSE CHOOSE i \in hits : \A j \in hits : j <= i

\* the indices up to n, in order, of the annotations that are the selected one
\* (want = TRUE) or are not (want = FALSE)
RECURSIVE indicesOf(_, _, _, _)
indicesOf(annotations, selectedId, want, n) ==
    IF n = 0 THEN <<>>
    ELSE IF (annotations[n].id = selectedId) = want
         THEN Append(indicesOf(annotations, selectedId, want, n - 1), n)
         ELSE indicesOf(annotations, selectedId, want, n - 1)

\* AnnotationRenderer.renderAll: the indices of the annotations in the order
\* they are drawn, the unselected ones first and the selected one last
renderAll(annotations, selectedId) ==
    LET found == indicesOf(annotations, selectedId, TRUE, Len(annotations))
    IN  indicesOf(annotations, selectedId, FALSE, Len(annotations))
          \o (IF selectedId # NoId /\ found # <<>> THEN << found[1] >> ELSE <<>>)

\* ---- state ----------------------------------------------------------------

VARIABLES
    pages,                       \* this.pages
    currentPageIndex,            \* this.currentPageIndex (1-based)
    canvas,                      \* the pixels of this.canvas (this.ctx)
    currentTool,                 \* this.currentTool
    annotationMode,              \* this.annotationMode
    currentAnnotationType,       \* this.currentAnnotationType
    isDrawing,                   \* this.isDrawing
    isCreatingAnnotation,        \* this.isCreatingAnnotation
    startPoint,                  \* this.startPoint
    highlightPoints,             \* this.highlightPoints
    nextAnnotationNumber,        \* this.nextAnnotationNumber
    selectedAnnotationId,        \* this.selectedAnnotationId
    popoverAnnotationId,         \* #feedback-popover dataset.annotationId
    popoverText,                 \* #popover-feedback value
    popoverHidden,               \* #feedback-popover has class hidden
    currentFeedbackAnnotationId, \* this.currentFeedbackAnnotationId
    modalText,                   \* #annotation-feedback-input value
    nextId,                      \* ids generateId has handed out, plus one
    budget,                      \* saveState calls the run may still make
    textModalOpen,               \* #text-input-modal is shown
    panOffset,                   \* this.panOffset
    isPanning,                   \* this.isPanning
    lastPanPoint,                \* this.lastPanPoint
    spaceHeld,                   \* this.spaceHeld
    scale,                       \* this.scale, in hundredths
    notes,                       \* #notes value (the global notes)
    sendDisabled,                \* #btn-send disabled
    request,                     \* the body of the submit request in flight
    errorToast,                  \* the message of #error-toast, "" if none
    windowClosed,                \* window.close() was called
    result,                      \* server: the value resultPromise resolved to
    stdout,                      \* server: the lines written to stdout
    stopped,                     \* server: server.stop() was called
    pending,                     \* server: submit requests awaiting req.json()
    arrived,                     \* server: requests received so far
    responses,                   \* server: the responses returned, in order
    actionButtons,               \* the disabled flags of #btn-undo and #btn-redo
    decoding                     \* image imports requested and not yet decoded

pageVars == <<pages, currentPageIndex, canvas>>
toolVars == <<currentTool, annotationMode, currentAnnotationType>>
gestureVars == <<isDrawing, isCreatingAnnotation, startPoint, highlightPoints>>
popoverVars == <<popoverAnnotationId, popoverText, popoverHidden>>
modalVars == <<currentFeedbackAnnotationId, modalText>>
textVars == <<textModalOpen>>
importVars == <<decoding>>
viewVars == <<scale, panOffset, isPanning, lastPanPoint, spaceHeld>>
sendVars == <<notes, sendDisabled, request, errorToast, windowClosed>>
serverVars == <<result, stdout, stopped, pending, arrived, responses>>
canvasVars == <<pageVars, toolVars, gestureVars, popoverVars, modalVars, textVars,
                nextAnnotationNumber, selectedAnnotationId, nextId, budget, actionButtons,
                importVars>>
extVars == <<viewVars, sendVars, serverVars>>
vars == <<canvasVars, extVars>>

\* this.currentPage
currentPage == pages[currentPageIndex]

\* ---- helpers of ShowMeCanvas ----------------------------------------------

\* ShowMeCanvas.createPage; the name "Page n" is kept as n
createPage(id, name, background) ==
    [ id |-> id,
      name |-> name,
      undoStack |-> <<>>,
      redoStack |-> <<>>,
      backgroundImage |-> background,
      annotations |-> <<>> ]

\* JSON.parse(JSON.stringify(annotations)): a fresh copy, field by field
JsonCopy(annotations) ==
    [ i \in 1..Len(annotations) |->
        [ id |-> annotations[i].id,
          type |-> annotations[i].type,
          number |-> annotations[i].number,
          position |-> annotations[i].position,
          bounds |-> annotations[i].bounds,
          points |-> annotations[i].points,
          startPoint |-> annotations[i].startPoint,
          endPoint |-> annotations[i].endPoint,
          feedback |-> annotations[i].feedback ] ]

\* a saveState loop that drops the newest snapshots: pop() for shift()
RECURSIVE LimitUndoStackDropsNewest(_)
LimitUndoStackDropsNewest(stack) ==
    IF Len(stack) > MAX_UNDO_STATES
    THEN LimitUndoStackDropsNewest(SubSeq(stack, 1, Len(stack) - 1))
    ELSE stack

\* the while loop of saveState: shift() until at most MAX_UNDO_STATES are left
RECURSIVE LimitUndoStack(_)
LimitUndoStack(stack) ==
    IF Len(stack) > MAX_UNDO_STATES THEN LimitUndoStack(Tail(stack)) ELSE stack

\* a saveState without `page.redoStack = []`
saveStateKeepsRedo(page, imageData) ==
    [ page EXCEPT
        !.undoStack = LimitUndoStack(Append(@,
            [ imageData |-> imageData, annotations |-> JsonCopy(page.annotations) ])) ]

\* ShowMeCanvas.saveState on a page, with the pixels of the canvas
saveState(page, imageData) ==
    [ page EXCEPT
        !.undoStack = LimitUndoStack(Append(@,
            [ imageData |-> imageData, annotations |-> JsonCopy(page.annotations) ])),
        !.redoStack = <<>> ]

\* ShowMeCanvas.updateActionButtonStates with this page active: the disabled
\* flags of the undo and the redo button
updateActionButtonStates(page) ==
    [ undoDisabled |-> ~(Len(page.undoStack) > 1),
      redoDisabled |-> ~(Len(page.redoStack) > 0) ]

\* ShowMeCanvas.restoreLastState: the pixels of the canvas afterwards
restoreLastState(page, imageData) ==
    IF Len(page.undoStack) > 0
    THEN page.undoStack[Len(page.undoStack)].imageData
    ELSE imageData

\* a saveCurrentPageState that commits the page's last snapshot once more
saveCurrentPageStateCommits(page) ==
    IF Len(page.undoStack) > 0
    THEN saveState(page, page.undoStack[Len(page.undoStack)].imageData)
    ELSE page

\* ShowMeCanvas.saveCurrentPageState: page.imageData is assigned the pixels of
\* the page's last snapshot; nothing reads page.imageData, and the page record
\* of the model does not carry it
saveCurrentPageState(page) == page

\* ShowMeCanvas.drawBackgroundImage after the white fill of clear / switchToPage
clearedCanvas(page) == IF page.backgroundImage THEN { BackgroundMark } ELSE Blank

\* the index of the annotation with this id in a list, 0 if there is none
\* (Array.prototype.findIndex / find)
findIndex(annotations, id) ==
    LET found == { i \in 1..Len(annotations) : annotations[i].id = id }
    IN  IF found = {} THEN 0 ELSE CHOOSE i \in found : \A j \in found : i <= j

\* Math.max(...page.annotations.map((a) => a.number))
RECURSIVE maxNumber(_)
maxNumber(annotations) ==
    IF Len(annotations) = 1 THEN annotations[1].number
    ELSE Max(annotations[1].number, maxNumber(Tail(annotations)))

\* ShowMeCanvas.savePopoverFeedback: the annotations of the page afterwards
savePopoverFeedback(annotations) ==
    LET i == findIndex(annotations, popoverAnnotationId)
    IN  IF popoverAnnotationId # NoId /\ i # 0 /\ annotations[i].feedback # popoverText
        THEN [ annotations EXCEPT ![i].feedback = popoverText ]
        ELSE annotations

\* the least and the greatest of a non-empty set of numbers
SetMin(S) == CHOOSE m \in S : \A n \in S : m <= n
SetMax(S) == CHOOSE m \in S : \A n \in S : m >= n

\* ShowMeCanvas.calculatePathBounds
\* an envelope of the points without padding
calculatePathBoundsUnpadded(points) ==
    LET xs == { points[i].x : i \in 1..Len(points) }
        ys == { points[i].y : i \in 1..Len(points) }
    IN  [ x |-> SetMin(xs),
          y |-> SetMin(ys),
          width |-> SetMax(xs) - SetMin(xs),
          height |-> SetMax(ys) - SetMin(ys) ]

calculatePathBounds(points) ==
    LET xs == { points[i].x : i \in 1..Len(points) }
        ys == { points[i].y : i \in 1..Len(points) }
    IN  [ x |-> SetMin(xs) - 15,
          y |-> SetMin(ys) - 15,
          width |-> SetMax(xs) - SetMin(xs) + 30,
          height |-> SetMax(ys) - SetMin(ys) + 30 ]

\* a minimum-size rule whose area test is `width < 10 && height < 10`
passesMinimumSizeBoth(type, start, endPoint, points) ==
    CASE type = "area" ->
            ~(Abs(endPoint.x - start.x) < 10 /\ Abs(endPoint.y - start.y) < 10)
      [] type = "arrow" -> ~(DistSq(start, endPoint) < 20 * 20)
      [] type = "highlight" -> ~(Len(points) < 3)
      [] OTHER -> TRUE

\* the minimum-size rule of createAnnotation: FALSE where the code returns
\* before the push ("Too small", "Too short")
passesMinimumSize(type, start, endPoint, points) ==
    CASE type = "area" ->
            ~(Abs(endPoint.x - start.x) < 10 \/ Abs(endPoint.y - start.y) < 10)
      [] type = "arrow" -> ~(DistSq(start, endPoint) < 20 * 20)
      [] type = "highlight" -> ~(Len(points) < 3)
      [] OTHER -> TRUE

\* the annotation createAnnotation builds (createdAt left out)
buildAnnotation(type, start, endPoint, points, id, number) ==
    LET base == [ id |-> id, type |-> type, number |-> number,
                  position |-> start, bounds |-> NoBounds,
                  points |-> <<>>, startPoint |-> NoPoint, endPoint |-> NoPoint,
                  feedback |-> "" ]
    IN  CASE type = "pin" ->
                [ base EXCEPT
                    !.position = endPoint,
                    !.bounds = [ x |-> endPoint.x - 14, y |-> endPoint.y - 14,
                                 width |-> 28, height |-> 28 ] ]
          [] type = "area" ->
                LET minX == Min(start.x, endPoint.x)
                    minY == Min(start.y, endPoint.y)
                    w == Abs(endPoint.x - start.x)
                    h == Abs(endPoint.y - start.y)
                IN  [ base EXCEPT
                        !.position = Pt(minX, minY),
                        !.bounds = [ x |-> minX, y |-> minY, width |-> w, height |-> h ],
                        !.startPoint = start,
                        !.endPoint = endPoint ]
          [] type = "arrow" ->
                LET arrowMinX == Min(start.x, endPoint.x) - 10
                    arrowMinY == Min(start.y, endPoint.y) - 10
                    arrowMaxX == Max(start.x, endPoint.x) + 10
                    arrowMaxY == Max(start.y, endPoint.y) + 10
                IN  [ base EXCEPT
                        !.startPoint = start,
                        !.endPoint = endPoint,
                        !.position = Pt((start.x + endPoint.x) \div 2,
                                        (start.y + endPoint.y) \div 2),
                        !.bounds = [ x |-> arrowMinX, y |-> arrowMinY,
                                     width |-> arrowMaxX - arrowMinX,
                                     height |-> arrowMaxY - arrowMinY ] ]
          [] OTHER ->
                [ base EXCEPT
                    !.points = points,
                    !.position = points[1],
                    !.bounds = calculatePathBounds(points) ]

\* `this.nextAnnotationNumber++`: the counter after a number was taken
postIncrementStuck(number) == number

postIncrement(number) == number + 1

\* an undo that restores the pixels of the previous snapshot and leaves
\* this.annotations alone
undoKeepsAnnotations(page, imageData) ==
    IF Len(page.undoStack) > 1
    THEN LET current == page.undoStack[Len(page.undoStack)]
             rest == SubSeq(page.undoStack, 1, Len(page.undoStack) - 1)
             previous == rest[Len(rest)]
         IN  [ page |-> [ page EXCEPT
                            !.undoStack = rest,
                            !.redoStack = Append(@, current) ],
               canvas |-> previous.imageData ]
    ELSE [ page |-> page, canvas |-> imageData ]

\* an undo whose guard is `undoStack.length > 0`: it pops the first snapshot too
undoPastFirst(page, imageData) ==
    IF Len(page.undoStack) > 0
    THEN LET current == page.undoStack[Len(page.undoStack)]
             rest == SubSeq(page.undoStack, 1, Len(page.undoStack) - 1)
         IN  [ page |-> [ page EXCEPT
                            !.undoStack = rest,
                            !.redoStack = Append(@, current),
                            !.annotations = IF rest = <<>> THEN @
                                            ELSE JsonCopy(rest[Len(rest)].annotations) ],
               canvas |-> IF rest = <<>> THEN imageData ELSE rest[Len(rest)].imageData ]
    ELSE [ page |-> page, canvas |-> imageData ]

\* ShowMeCanvas.undo on a page: the page and the pixels afterwards
undo(page, imageData) ==
    IF Len(page.undoStack) > 1
    THEN LET current == page.undoStack[Len(page.undoStack)]
             rest == SubSeq(page.undoStack, 1, Len(page.undoStack) - 1)
             previous == rest[Len(rest)]
         IN  [ page |-> [ page EXCEPT
                            !.undoStack = rest,
                            !.redoStack = Append(@, current),
                            !.annotations = JsonCopy(previous.annotations) ],
               canvas |-> previous.imageData ]
    ELSE [ page |-> page, canvas |-> imageData ]

\* ShowMeCanvas.redo on a page: the page and the pixels afterwards
redo(page, imageData) ==
    IF Len(page.redoStack) > 0
    THEN LET state == page.redoStack[Len(page.redoStack)]
         IN  [ page |-> [ page EXCEPT
                            !.redoStack = SubSeq(@, 1, Len(@) - 1),
                            !.undoStack = Append(@, state),
                            !.annotations = JsonCopy(state.annotations) ],
               canvas |-> state.imageData ]
    ELSE [ page |-> page, canvas |-> imageData ]

\* ---- initial state: the constructor -----------------------------------------

\* initCanvas, createInitialPage (createPage, push, saveState)
InitWith(commits) ==
    /\ pages = << saveState(createPage(1, 1, FALSE), Blank) >>
    /\ currentPageIndex = 1
    /\ canvas = Blank
    /\ currentTool = "pen"
    /\ annotationMode = FALSE
    /\ currentAnnotationType = "pin"
    /\ isDrawing = FALSE
    /\ isCreatingAnnotation = FALSE
    /\ startPoint = NoPoint
    /\ highlightPoints = <<>>
    /\ nextAnnotationNumber = 1
    /\ selectedAnnotationId = NoId
    /\ popoverAnnotationId = NoId
    /\ popoverText = ""
    /\ popoverHidden = TRUE
    /\ currentFeedbackAnnotationId = NoId
    /\ modalText = ""
    /\ nextId = 2
    /\ budget = commits
    /\ textModalOpen = FALSE
    /\ decoding = {}
    /\ actionButtons = updateActionButtonStates(saveState(createPage(1, 1, FALSE), Blank))
    /\ scale = 100
    /\ panOffset = Pt(0, 0)
    /\ isPanning = FALSE
    /\ lastPanPoint = Pt(0, 0)
    /\ spaceHeld = FALSE
    /\ notes = ""
    /\ sendDisabled = FALSE
    /\ request = NoRequest
    /\ errorToast = ""
    /\ windowClosed = FALSE
    /\ result = NoResult
    /\ stdout = <<>>
    /\ stopped = FALSE
    /\ pending = {}
    /\ arrived = 0
    /\ responses = <<>>

Init == InitWith(MaxCommits)

\* ---- tools ------------------------------------------------------------------

\* ShowMeCanvas.setTool
SetTool(tool) ==
    /\ tool \in Tools
    /\ currentTool' = tool
    /\ annotationMode' = FALSE
    /\ UNCHANGED <<extVars, importVars, textVars, actionButtons, pageVars, currentAnnotationType, gestureVars, popoverVars, modalVars,
                   nextAnnotationNumber, selectedAnnotationId, nextId, budget>>

\* ShowMeCanvas.setAnnotationTool
SetAnnotationTool(type) ==
    /\ type \in AnnotationTypes
    /\ currentAnnotationType' = type
    /\ annotationMode' = TRUE
    /\ UNCHANGED <<extVars, importVars, textVars, actionButtons, pageVars, currentTool, gestureVars, popoverVars, modalVars,
                   nextAnnotationNumber, selectedAnnotationId, nextId, budget>>

\* ShowMeCanvas.toggleAnnotationMode
ToggleAnnotationMode ==
    /\ annotationMode' = ~annotationMode
    /\ UNCHANGED <<extVars, importVars, textVars, actionButtons, pageVars, currentTool, currentAnnotationType, gestureVars,
                   popoverVars, modalVars, nextAnnotationNumber, selectedAnnotationId,
                   nextId, budget>>

\* ---- drawing gestures -------------------------------------------------------

\* a press that starts a gesture with the text tool as well
OnMouseDownTextDraws ==
    /\ ~spaceHeld
    /\ ~annotationMode
    /\ isDrawing' = TRUE
    /\ textModalOpen' = (currentTool = "text")
    /\ UNCHANGED <<extVars, importVars, actionButtons, pageVars, toolVars, isCreatingAnnotation, startPoint, highlightPoints,
                   popoverVars, modalVars, nextAnnotationNumber, selectedAnnotationId,
                   nextId, budget>>

\* ShowMeCanvas.onMouseDown with the left button and space not held (StartPan
\* is the other branch), startDrawing: the text tool opens the text prompt and
\* starts no gesture.  What a drawing gesture paints is a mark chosen when it is
\* painted; the points of the gesture are not kept
OnMouseDown ==
    /\ ~spaceHeld
    /\ ~annotationMode
    /\ IF currentTool = "text"
       THEN textModalOpen' = TRUE /\ UNCHANGED isDrawing
       ELSE isDrawing' = TRUE /\ UNCHANGED textModalOpen
    /\ UNCHANGED <<extVars, importVars, actionButtons, pageVars, toolVars, isCreatingAnnotation, startPoint, highlightPoints,
                   popoverVars, modalVars, nextAnnotationNumber, selectedAnnotationId,
                   nextId, budget>>

\* ShowMeCanvas.onMouseMove while not panning (DoPan is the other branch),
\* draw: pen and eraser paint at once, a shape tool repaints the last snapshot
\* with a dashed preview on it
OnMouseMove(i) ==
    /\ ~isPanning
    /\ isDrawing /\ ~annotationMode
    /\ canvas' =
         CASE currentTool = "pen" -> canvas \cup { Mark("ink", i) }
           [] currentTool = "eraser" -> canvas \ { Mark("ink", i) }
           [] currentTool = "text" -> restoreLastState(currentPage, canvas)
           [] OTHER -> restoreLastState(currentPage, canvas) \cup { Mark("dash", i) }
    /\ UNCHANGED <<extVars, importVars, textVars, actionButtons, pages, currentPageIndex, toolVars, gestureVars, popoverVars,
                   modalVars, nextAnnotationNumber, selectedAnnotationId, nextId, budget>>

\* ShowMeCanvas.onMouseUp (also mouseleave and touchend) while not panning
\* (EndPan is the other branch): a shape tool repaints the last snapshot with
\* the solid shape on it; then saveState
OnMouseUp(i) ==
    /\ ~isPanning
    /\ isDrawing
    /\ budget > 0
    /\ isDrawing' = FALSE
    /\ canvas' =
         IF currentTool \in { "pen", "eraser", "text" }
         THEN canvas
         ELSE restoreLastState(currentPage, canvas) \cup { Mark("ink", i) }
    /\ pages' = [ pages EXCEPT ![currentPageIndex] = saveState(@, canvas') ]
    /\ budget' = budget - 1
    /\ actionButtons' = updateActionButtonStates(pages'[currentPageIndex])
    /\ UNCHANGED <<extVars, importVars, textVars, currentPageIndex, toolVars, isCreatingAnnotation, startPoint,
                   highlightPoints, popoverVars, modalVars, nextAnnotationNumber,
                   selectedAnnotationId, nextId>>

\* ---- annotation gestures ----------------------------------------------------

\* ShowMeCanvas.onAnnotationMouseDown: a hit selects the annotation and shows the
\* popover on it; otherwise a creating gesture starts (hidePopover included)
OnAnnotationMouseDown(point) ==
    LET hit == HitTest(point, currentPage.annotations)
    IN  /\ annotationMode
        /\ IF hit # 0
           THEN /\ selectedAnnotationId' = currentPage.annotations[hit].id
                /\ popoverText' = currentPage.annotations[hit].feedback
                /\ popoverAnnotationId' = currentPage.annotations[hit].id
                /\ popoverHidden' = FALSE
                /\ UNCHANGED <<pages, gestureVars>>
           ELSE /\ isCreatingAnnotation' = TRUE
                /\ startPoint' = point
                /\ highlightPoints' = << point >>
                /\ selectedAnnotationId' = NoId
                /\ pages' = [ pages EXCEPT ![currentPageIndex].annotations =
                                               savePopoverFeedback(@) ]
                /\ popoverHidden' = TRUE
                /\ UNCHANGED <<isDrawing, popoverAnnotationId, popoverText>>
        /\ UNCHANGED <<extVars, importVars, textVars, actionButtons, currentPageIndex, canvas, toolVars, modalVars,
                       nextAnnotationNumber, nextId, budget>>

\* ShowMeCanvas.onAnnotationMouseMove
OnAnnotationMouseMove(point) ==
    /\ isCreatingAnnotation
    /\ currentAnnotationType = "highlight"
    /\ Len(highlightPoints) < MaxPath
    /\ highlightPoints' = Append(highlightPoints, point)
    /\ UNCHANGED <<extVars, importVars, textVars, actionButtons, pageVars, toolVars, isDrawing, isCreatingAnnotation, startPoint,
                   popoverVars, modalVars, nextAnnotationNumber, selectedAnnotationId,
                   nextId, budget>>

\* a creation that puts the new annotation in front of the others
OnAnnotationMouseUpPrepends(point) ==
    LET type == currentAnnotationType
        ann == buildAnnotation(type, startPoint, point, highlightPoints,
                               nextId, nextAnnotationNumber)
    IN  /\ isCreatingAnnotation
        /\ nextAnnotationNumber < MaxNumber
        /\ nextAnnotationNumber' = postIncrement(nextAnnotationNumber)
        /\ isCreatingAnnotation' = FALSE
        /\ highlightPoints' = <<>>
        /\ IF passesMinimumSize(type, startPoint, point, highlightPoints)
           THEN /\ budget > 0
                /\ pages' = [ pages EXCEPT ![currentPageIndex] =
                                saveState([ @ EXCEPT !.annotations = << ann >> \o @ ],
                                          canvas) ]
                /\ selectedAnnotationId' = ann.id
                /\ currentFeedbackAnnotationId' = ann.id
                /\ modalText' = ann.feedback
                /\ nextId' = nextId + 1
                /\ budget' = budget - 1
           ELSE UNCHANGED <<pages, selectedAnnotationId, modalVars, nextId, budget>>
        /\ actionButtons' = IF budget' < budget
                            THEN updateActionButtonStates(pages'[currentPageIndex])
                            ELSE actionButtons
        /\ UNCHANGED <<extVars, importVars, textVars, currentPageIndex, canvas, toolVars, isDrawing, startPoint,
                       popoverVars>>

\* ShowMeCanvas.onAnnotationMouseUp, createAnnotation: the number is taken from
\* the counter before the minimum-size rule is applied
OnAnnotationMouseUp(point) ==
    LET type == currentAnnotationType
        ann == buildAnnotation(type, startPoint, point, highlightPoints,
                               nextId, nextAnnotationNumber)
    IN  /\ isCreatingAnnotation
        /\ nextAnnotationNumber < MaxNumber
        /\ nextAnnotationNumber' = postIncrement(nextAnnotationNumber)
        /\ isCreatingAnnotation' = FALSE
        /\ highlightPoints' = <<>>
        /\ IF passesMinimumSize(type, startPoint, point, highlightPoints)
           THEN /\ budget > 0
                /\ pages' = [ pages EXCEPT ![currentPageIndex] =
                                saveState([ @ EXCEPT !.annotations = Append(@, ann) ],
                                          canvas) ]
                /\ selectedAnnotationId' = ann.id
                /\ currentFeedbackAnnotationId' = ann.id
                /\ modalText' = ann.feedback
                /\ nextId' = nextId + 1
                /\ budget' = budget - 1
           ELSE UNCHANGED <<pages, selectedAnnotationId, modalVars, nextId, budget>>
        /\ actionButtons' = IF budget' < budget
                            THEN updateActionButtonStates(pages'[currentPageIndex])
                            ELSE actionButtons
        /\ UNCHANGED <<extVars, importVars, textVars, currentPageIndex, canvas, toolVars, isDrawing, startPoint,
                       popoverVars>>

\* ---- selection and feedback editors -------------------------------------------

\* a click on a sidebar item or the focus of its textarea: selectAnnotation
SidebarSelect(i) ==
    /\ i \in 1..Len(currentPage.annotations)
    /\ selectedAnnotationId' = currentPage.annotations[i].id
    /\ UNCHANGED <<extVars, importVars, textVars, actionButtons, pageVars, toolVars, gestureVars, popoverVars, modalVars,
                   nextAnnotationNumber, nextId, budget>>

\* a sidebar textarea whose annotation object is shared with the page's last
\* snapshot (a saveState that pushes this.annotations itself): the text is
\* written into the snapshot too
SidebarInputShared(i, text) ==
    LET top == Len(currentPage.undoStack)
        k == findIndex(currentPage.undoStack[top].annotations, currentPage.annotations[i].id)
    IN  /\ i \in 1..Len(currentPage.annotations)
        /\ pages' = [ pages EXCEPT
                        ![currentPageIndex].annotations[i].feedback = text,
                        ![currentPageIndex].undoStack[top].annotations =
                            IF k # 0 THEN [ @ EXCEPT ![k].feedback = text ] ELSE @ ]
        /\ UNCHANGED <<extVars, importVars, textVars, actionButtons, currentPageIndex, canvas, toolVars, gestureVars,
                       popoverVars, modalVars, nextAnnotationNumber, selectedAnnotationId,
                       nextId, budget>>

\* the input listener of a sidebar textarea: ann.feedback = textarea.value
SidebarInput(i, text) ==
    /\ i \in 1..Len(currentPage.annotations)
    /\ pages' = [ pages EXCEPT ![currentPageIndex].annotations[i].feedback = text ]
    /\ UNCHANGED <<extVars, importVars, textVars, actionButtons, currentPageIndex, canvas, toolVars, gestureVars, popoverVars,
                   modalVars, nextAnnotationNumber, selectedAnnotationId, nextId, budget>>

\* the user types in the popover's textarea
PopoverInput(text) ==
    /\ ~popoverHidden
    /\ popoverText' = text
    /\ UNCHANGED <<extVars, importVars, textVars, actionButtons, pageVars, toolVars, gestureVars, popoverAnnotationId, popoverHidden,
                   modalVars, nextAnnotationNumber, selectedAnnotationId, nextId, budget>>

\* the popover's save button: savePopoverFeedback
PopoverSave ==
    /\ ~popoverHidden
    /\ pages' = [ pages EXCEPT ![currentPageIndex].annotations = savePopoverFeedback(@) ]
    /\ UNCHANGED <<extVars, importVars, textVars, actionButtons, currentPageIndex, canvas, toolVars, gestureVars, popoverVars,
                   modalVars, nextAnnotationNumber, selectedAnnotationId, nextId, budget>>

\* the popover's close button: hidePopover
PopoverClose ==
    /\ ~popoverHidden
    /\ pages' = [ pages EXCEPT ![currentPageIndex].annotations = savePopoverFeedback(@) ]
    /\ popoverHidden' = TRUE
    /\ UNCHANGED <<extVars, importVars, textVars, actionButtons, currentPageIndex, canvas, toolVars, gestureVars, popoverAnnotationId,
                   popoverText, modalVars, nextAnnotationNumber, selectedAnnotationId,
                   nextId, budget>>

\* the user types in the feedback modal's textarea
ModalInput(text) ==
    /\ currentFeedbackAnnotationId # NoId
    /\ modalText' = text
    /\ UNCHANGED <<extVars, importVars, textVars, actionButtons, pageVars, toolVars, gestureVars, popoverVars,
                   currentFeedbackAnnotationId, nextAnnotationNumber,
                   selectedAnnotationId, nextId, budget>>

\* ShowMeCanvas.saveAnnotationFeedback (the modal's save button, Ctrl+Enter)
SaveAnnotationFeedback ==
    LET i == findIndex(currentPage.annotations, currentFeedbackAnnotationId)
    IN  /\ currentFeedbackAnnotationId # NoId
        /\ pages' = IF i # 0
                    THEN [ pages EXCEPT ![currentPageIndex].annotations[i].feedback =
                                            Trim(modalText) ]
                    ELSE pages
        /\ currentFeedbackAnnotationId' = NoId
        /\ UNCHANGED <<extVars, importVars, textVars, actionButtons, currentPageIndex, canvas, toolVars, gestureVars, popoverVars,
                       modalText, nextAnnotationNumber, selectedAnnotationId, nextId,
                       budget>>

\* ShowMeCanvas.skipAnnotationFeedback / hideAnnotationFeedbackModal (skip, close)
SkipAnnotationFeedback ==
    /\ currentFeedbackAnnotationId # NoId
    /\ currentFeedbackAnnotationId' = NoId
    /\ UNCHANGED <<extVars, importVars, textVars, actionButtons, pageVars, toolVars, gestureVars, popoverVars, modalText,
                   nextAnnotationNumber, selectedAnnotationId, nextId, budget>>

\* an Escape that also ends a pan and a drawing gesture
OnKeyDownEscapeCancels ==
    /\ currentFeedbackAnnotationId' = NoId
    /\ pages' = [ pages EXCEPT ![currentPageIndex].annotations = savePopoverFeedback(@) ]
    /\ popoverHidden' = TRUE
    /\ selectedAnnotationId' = NoId
    /\ textModalOpen' = FALSE
    /\ isPanning' = FALSE
    /\ isDrawing' = FALSE
    /\ UNCHANGED <<actionButtons, importVars, currentPageIndex, canvas, toolVars, isCreatingAnnotation, startPoint,
                   highlightPoints, popoverAnnotationId, popoverText, modalText,
                   nextAnnotationNumber, nextId, budget, sendVars, serverVars, scale,
                   panOffset, lastPanPoint, spaceHeld>>

\* ShowMeCanvas.onKeyDown, Escape: hideTextModal, hideAnnotationFeedbackModal,
\* hidePopover, selection cleared
OnKeyDownEscape ==
    /\ currentFeedbackAnnotationId' = NoId
    /\ pages' = [ pages EXCEPT ![currentPageIndex].annotations = savePopoverFeedback(@) ]
    /\ popoverHidden' = TRUE
    /\ selectedAnnotationId' = NoId
    /\ textModalOpen' = FALSE
    /\ UNCHANGED <<extVars, importVars, actionButtons, currentPageIndex, canvas, toolVars, gestureVars, popoverAnnotationId,
                   popoverText, modalText, nextAnnotationNumber, nextId, budget>>

\* ShowMeCanvas.deleteAnnotation: the page afterwards (unchanged if the id is
\* not on the page)
deleteAnnotation(page, id, imageData) ==
    LET index == findIndex(page.annotations, id)
    IN  IF index # 0
        THEN saveState([ page EXCEPT !.annotations =
                            SubSeq(@, 1, index - 1) \o SubSeq(@, index + 1, Len(@)) ],
                       imageData)
        ELSE page

\* deleteAnnotation(id) as a step
DeleteStep(id) ==
    /\ findIndex(currentPage.annotations, id) # 0
    /\ budget > 0
    /\ pages' = [ pages EXCEPT ![currentPageIndex] = deleteAnnotation(@, id, canvas) ]
    /\ selectedAnnotationId' = IF selectedAnnotationId = id THEN NoId
                               ELSE selectedAnnotationId
    /\ budget' = budget - 1
    /\ actionButtons' = updateActionButtonStates(pages'[currentPageIndex])
    /\ UNCHANGED <<extVars, importVars, textVars, currentPageIndex, canvas, toolVars, gestureVars, popoverVars,
                   modalVars, nextAnnotationNumber, nextId>>

\* ShowMeCanvas.onKeyDown, Delete / Backspace outside a text field
OnKeyDownDelete ==
    /\ selectedAnnotationId # NoId
    /\ DeleteStep(selectedAnnotationId)

\* the delete button of a sidebar item (after the confirm dialog)
SidebarDelete(i) ==
    /\ i \in 1..Len(currentPage.annotations)
    /\ DeleteStep(currentPage.annotations[i].id)

\* ---- undo, redo, clear ---------------------------------------------------------

\* an undo on a history shared by the pages: every page steps back
UndoShared ==
    /\ pages' = [ p \in 1..Len(pages) |-> undo(pages[p], canvas).page ]
    /\ canvas' = undo(currentPage, canvas).canvas
    /\ actionButtons' = IF Len(currentPage.undoStack) > 1
                        THEN updateActionButtonStates(pages'[currentPageIndex])
                        ELSE actionButtons
    /\ UNCHANGED <<extVars, importVars, textVars, currentPageIndex, toolVars, gestureVars, popoverVars,
                   modalVars, nextAnnotationNumber, selectedAnnotationId, nextId, budget>>

\* ShowMeCanvas.undo (button, Ctrl+Z)
Undo ==
    /\ pages' = [ pages EXCEPT ![currentPageIndex] = undo(@, canvas).page ]
    /\ canvas' = undo(currentPage, canvas).canvas
    /\ actionButtons' = IF Len(currentPage.undoStack) > 1
                        THEN updateActionButtonStates(pages'[currentPageIndex])
                        ELSE actionButtons
    /\ UNCHANGED <<extVars, importVars, textVars, currentPageIndex, toolVars, gestureVars, popoverVars, modalVars,
                   nextAnnotationNumber, selectedAnnotationId, nextId, budget>>

\* ShowMeCanvas.redo (button, Ctrl+Y, Ctrl+Shift+Z)
Redo ==
    /\ pages' = [ pages EXCEPT ![currentPageIndex] = redo(@, canvas).page ]
    /\ canvas' = redo(currentPage, canvas).canvas
    /\ actionButtons' = IF Len(currentPage.redoStack) > 0
                        THEN updateActionButtonStates(pages'[currentPageIndex])
                        ELSE actionButtons
    /\ UNCHANGED <<extVars, importVars, textVars, currentPageIndex, toolVars, gestureVars, popoverVars, modalVars,
                   nextAnnotationNumber, selectedAnnotationId, nextId, budget>>

\* a clear that wipes the annotations of the page with the drawing
ClearDropsAnnotations ==
    /\ budget > 0
    /\ canvas' = clearedCanvas(currentPage)
    /\ pages' = [ pages EXCEPT ![currentPageIndex] =
                    saveState([ @ EXCEPT !.annotations = <<>> ], canvas') ]
    /\ budget' = budget - 1
    /\ actionButtons' = updateActionButtonStates(pages'[currentPageIndex])
    /\ UNCHANGED <<extVars, importVars, textVars, currentPageIndex, toolVars, gestureVars, popoverVars,
                   modalVars, nextAnnotationNumber, selectedAnnotationId, nextId>>

\* ShowMeCanvas.clear
Clear ==
    /\ budget > 0
    /\ canvas' = clearedCanvas(currentPage)
    /\ pages' = [ pages EXCEPT ![currentPageIndex] = saveState(@, canvas') ]
    /\ budget' = budget - 1
    /\ actionButtons' = updateActionButtonStates(pages'[currentPageIndex])
    /\ UNCHANGED <<extVars, importVars, textVars, currentPageIndex, toolVars, gestureVars, popoverVars, modalVars,
                   nextAnnotationNumber, selectedAnnotationId, nextId>>

\* the texts typed into #text-input
TextInputs == { "", " ", "t" }

\* ShowMeCanvas.submitText (the submit button of the text prompt, Enter in it):
\* a text that is not blank is painted and committed; the prompt is closed
SubmitText(text, i) ==
    /\ textModalOpen
    /\ textModalOpen' = FALSE
    /\ IF Trim(text) # ""
       THEN /\ budget > 0
            /\ canvas' = canvas \cup { Mark("ink", i) }
            /\ pages' = [ pages EXCEPT ![currentPageIndex] = saveState(@, canvas') ]
            /\ budget' = budget - 1
            /\ actionButtons' = updateActionButtonStates(pages'[currentPageIndex])
       ELSE UNCHANGED <<pages, canvas, budget, actionButtons>>
    /\ UNCHANGED <<extVars, importVars, currentPageIndex, toolVars, gestureVars, popoverVars, modalVars,
                   nextAnnotationNumber, selectedAnnotationId, nextId>>

\* pasteText, the onload of pasteImage: ink on the canvas, then saveState
DrawAndSave(i) ==
    /\ budget > 0
    /\ canvas' = canvas \cup { Mark("ink", i) }
    /\ pages' = [ pages EXCEPT ![currentPageIndex] = saveState(@, canvas') ]
    /\ budget' = budget - 1
    /\ actionButtons' = updateActionButtonStates(pages'[currentPageIndex])
    /\ UNCHANGED <<extVars, importVars, textVars, currentPageIndex, toolVars, gestureVars, popoverVars, modalVars,
                   nextAnnotationNumber, selectedAnnotationId, nextId>>

\* the onload of loadImage: the image becomes the page's background, then clear
LoadImage ==
    /\ budget > 0
    /\ canvas' = { BackgroundMark }
    /\ pages' = [ pages EXCEPT ![currentPageIndex] =
                    saveState([ @ EXCEPT !.backgroundImage = TRUE ], canvas') ]
    /\ budget' = budget - 1
    /\ actionButtons' = updateActionButtonStates(pages'[currentPageIndex])
    /\ UNCHANGED <<extVars, importVars, textVars, currentPageIndex, toolVars, gestureVars, popoverVars, modalVars,
                   nextAnnotationNumber, selectedAnnotationId, nextId>>

\* the kinds of image import: the file input (loadImage), the clipboard (pasteImage)
ImportKinds == { "file", "paste" }

\* loadImage / pasteImage up to reader.readAsDataURL(file): the decode is under
\* way; `page` is the page that is active now
RequestImport(kind) ==
    /\ decoding' = decoding \cup { [ kind |-> kind, page |-> currentPage.id ] }
    /\ UNCHANGED <<extVars, pageVars, toolVars, gestureVars, popoverVars, modalVars, textVars,
                   nextAnnotationNumber, selectedAnnotationId, nextId, budget, actionButtons>>

\* the img.onload of loadImage: this.currentPage.backgroundImage = img, clear()
ImageLoaded(import) ==
    /\ import \in decoding
    /\ import.kind = "file"
    /\ budget > 0
    /\ decoding' = decoding \ { import }
    /\ canvas' = { BackgroundMark }
    /\ pages' = [ pages EXCEPT ![currentPageIndex] =
                    saveState([ @ EXCEPT !.backgroundImage = TRUE ], canvas') ]
    /\ budget' = budget - 1
    /\ actionButtons' = updateActionButtonStates(pages'[currentPageIndex])
    /\ UNCHANGED <<extVars, textVars, currentPageIndex, toolVars, gestureVars, popoverVars,
                   modalVars, nextAnnotationNumber, selectedAnnotationId, nextId>>

\* the img.onload of pasteImage: drawImage on the canvas, saveState
ImagePasted(import, i) ==
    /\ import \in decoding
    /\ import.kind = "paste"
    /\ budget > 0
    /\ decoding' = decoding \ { import }
    /\ canvas' = canvas \cup { Mark("ink", i) }
    /\ pages' = [ pages EXCEPT ![currentPageIndex] = saveState(@, canvas') ]
    /\ budget' = budget - 1
    /\ actionButtons' = updateActionButtonStates(pages'[currentPageIndex])
    /\ UNCHANGED <<extVars, textVars, currentPageIndex, toolVars, gestureVars, popoverVars,
                   modalVars, nextAnnotationNumber, selectedAnnotationId, nextId>>

\* ---- pages ----------------------------------------------------------------------

\* a switchToPage that restarts the numbering on every page
numberAfterSwitchOne(page) == 1

\* the numbering counter switchToPage computes from a page's annotations
numberAfterSwitch(page) ==
    IF Len(page.annotations) = 0 THEN 1 ELSE maxNumber(page.annotations) + 1

\* ShowMeCanvas.switchToPage(index) on a page list whose active index is still
\* `current`: saveCurrentPageState, the selection cleared, hidePopover (on the
\* page that is now active), the page's last snapshot put on the canvas or, for a
\* page without history, a fresh canvas and saveState; the counter recomputed
switchToPage(pageList, current, index) ==
    LET saved == [ pageList EXCEPT ![current] = saveCurrentPageState(@) ]
        hidden == [ saved EXCEPT ![index].annotations = savePopoverFeedback(@) ]
        page == hidden[index]
        hasHistory == Len(page.undoStack) > 0
    IN  /\ index \in 1..Len(pageList)
        /\ currentPageIndex' = index
        /\ selectedAnnotationId' = NoId
        /\ popoverHidden' = TRUE
        /\ IF hasHistory
           THEN /\ canvas' = page.undoStack[Len(page.undoStack)].imageData
                /\ pages' = hidden
                /\ budget' = budget
                /\ actionButtons' = actionButtons
           ELSE /\ budget > 0
                /\ canvas' = clearedCanvas(page)
                /\ pages' = [ hidden EXCEPT ![index] = saveState(@, canvas') ]
                /\ budget' = budget - 1
                /\ actionButtons' = updateActionButtonStates(pages'[index])
        /\ nextAnnotationNumber' = numberAfterSwitch(page)
        /\ UNCHANGED <<toolVars, gestureVars, popoverAnnotationId, popoverText,
                       modalVars>>

\* a click on a page of the page sidebar
SwitchToPage(index) ==
    /\ index \in 1..Len(pages)
    /\ switchToPage(pages, currentPageIndex, index)
    /\ UNCHANGED <<nextId, extVars, importVars, textVars>>

\* ShowMeCanvas.addBlankPage, and the onload of createPageFromImage (the new
\* page carries the image as its background)
AddPage(background) ==
    /\ switchToPage(Append([ pages EXCEPT ![currentPageIndex] = saveCurrentPageState(@) ],
                           createPage(nextId, Len(pages) + 1, background)),
                    currentPageIndex, Len(pages) + 1)
    /\ nextId' = nextId + 1
    /\ UNCHANGED <<extVars, importVars, textVars>>

\* a deletePage without `if (this.pages.length <= 1) return`: the last page is
\* spliced out, the active index becomes -1 and switchToPage returns at once
DeletePageNoGuard(index) ==
    LET spliced == SubSeq(pages, 1, index - 1) \o SubSeq(pages, index + 1, Len(pages))
        current == IF currentPageIndex > Len(spliced) THEN Len(spliced)
                   ELSE currentPageIndex
    IN  /\ index \in 1..Len(pages)
        /\ IF spliced = <<>>
           THEN /\ pages' = spliced
                /\ currentPageIndex' = current
                /\ UNCHANGED <<canvas, actionButtons, toolVars, gestureVars, popoverVars, modalVars,
                               nextAnnotationNumber, selectedAnnotationId, budget>>
           ELSE switchToPage(spliced, current, current)
        /\ UNCHANGED <<nextId, extVars, importVars, textVars>>

\* ShowMeCanvas.deletePage(index)
DeletePage(index) ==
    LET spliced == SubSeq(pages, 1, index - 1) \o SubSeq(pages, index + 1, Len(pages))
        current == IF currentPageIndex > Len(spliced) THEN Len(spliced)
                   ELSE currentPageIndex
    IN  /\ index \in 1..Len(pages)
        /\ ~(Len(pages) <= 1)
        /\ switchToPage(spliced, current, current)
        /\ UNCHANGED <<nextId, extVars, importVars, textVars>>

\* ---- zoom and pan --------------------------------------------------------------------

\* sizes of .canvas-container, chosen so that the quotients of zoomFit are exact
ContainerWidths == { 20, 200, 680, 1400 }
ContainerHeights == { 160, 480, 1000 }

\* clientX/clientY of the mouse events of a pan
PanClients == { Pt(0, 0), Pt(10, 0) }

\* the value setZoom assigns to this.scale
setZoom(newScale) == Max(minScale, Min(maxScale, newScale))

ZoomIn ==
    /\ scale' = setZoom(scale + scaleStep)
    /\ UNCHANGED <<canvasVars, sendVars, serverVars, panOffset, isPanning, lastPanPoint,
                   spaceHeld>>

ZoomOut ==
    /\ scale' = setZoom(scale - scaleStep)
    /\ UNCHANGED <<canvasVars, sendVars, serverVars, panOffset, isPanning, lastPanPoint,
                   spaceHeld>>

\* onWheel with ctrl or meta held; deltaY is the sign of e.deltaY
OnWheel(deltaY) ==
    /\ scale' = setZoom(scale + (IF deltaY > 0 THEN -scaleStep ELSE scaleStep))
    /\ UNCHANGED <<canvasVars, sendVars, serverVars, panOffset, isPanning, lastPanPoint,
                   spaceHeld>>

ZoomReset ==
    /\ scale' = 100
    /\ panOffset' = Pt(0, 0)
    /\ UNCHANGED <<canvasVars, sendVars, serverVars, isPanning, lastPanPoint, spaceHeld>>

\* zoomFit for a container of the given size; the canvas has the size initCanvas
\* gave it in a window large enough
ZoomFit(containerWidth, containerHeight) ==
    LET availableWidth == containerWidth - FitPadding * 2
        availableHeight == containerHeight - FitPadding * 2
        scaleX == (availableWidth * 100) \div CanvasWidth
        scaleY == (availableHeight * 100) \div CanvasHeight
        fitScale == Min(Min(scaleX, scaleY), 100)
    IN  /\ scale' = fitScale
        /\ panOffset' = Pt(0, 0)
        /\ UNCHANGED <<canvasVars, sendVars, serverVars, isPanning, lastPanPoint,
                       spaceHeld>>

\* onKeyDown for the space key, no modifier
SpaceDown ==
    /\ ~spaceHeld
    /\ spaceHeld' = TRUE
    /\ UNCHANGED <<canvasVars, sendVars, serverVars, scale, panOffset, isPanning,
                   lastPanPoint>>

\* onKeyUp for the space key
SpaceUp ==
    /\ spaceHeld' = FALSE
    /\ UNCHANGED <<canvasVars, sendVars, serverVars, scale, panOffset, isPanning,
                   lastPanPoint>>

\* onMouseDown with the middle button (button = 1) or with space held: startPan
StartPan(button, client) ==
    /\ button = 1 \/ spaceHeld
    /\ isPanning' = TRUE
    /\ lastPanPoint' = client
    /\ UNCHANGED <<canvasVars, sendVars, serverVars, scale, panOffset, spaceHeld>>

\* a mouse move while panning that pans and goes on to draw
DoPanAndDraw(client) ==
    /\ isPanning
    /\ panOffset' = Pt(panOffset.x + (client.x - lastPanPoint.x),
                        panOffset.y + (client.y - lastPanPoint.y))
    /\ lastPanPoint' = client
    /\ canvas' = IF isDrawing /\ ~annotationMode THEN canvas \cup { Mark("ink", 1) }
                 ELSE canvas
    /\ UNCHANGED <<pages, currentPageIndex, actionButtons, importVars, toolVars, gestureVars, popoverVars, modalVars,
                   textVars, nextAnnotationNumber, selectedAnnotationId, nextId, budget,
                   sendVars, serverVars, scale, isPanning, spaceHeld>>

\* onMouseMove while panning: doPan
DoPan(client) ==
    /\ isPanning
    /\ panOffset' = Pt(panOffset.x + (client.x - lastPanPoint.x),
                        panOffset.y + (client.y - lastPanPoint.y))
    /\ lastPanPoint' = client
    /\ UNCHANGED <<canvasVars, sendVars, serverVars, scale, isPanning, spaceHeld>>

\* onMouseUp (or mouseleave) while panning: endPan
EndPan ==
    /\ isPanning
    /\ isPanning' = FALSE
    /\ UNCHANGED <<canvasVars, sendVars, serverVars, scale, panOffset, lastPanPoint,
                   spaceHeld>>

\* ---- submission ---------------------------------------------------------------------

\* HTMLCanvasElement.toDataURL("image/png"): the PNG encoding of the pixels
toDataURL(imageData) == << "data:image/png", imageData >>

\* a payload whose pages all carry the annotations of the active page
buildPayloadActiveOnly(pageList, current, imageData, globalNotes) ==
    [ action |-> "submit",
      pages |->
        [ i \in 1..Len(pageList) |->
            [ id |-> pageList[i].id,
              name |-> pageList[i].name,
              image |-> toDataURL(imageData),
              width |-> CanvasWidth,
              height |-> CanvasHeight,
              annotations |->
                [ k \in 1..Len(pageList[current].annotations) |->
                    [ id |-> pageList[current].annotations[k].id,
                      type |-> pageList[current].annotations[k].type,
                      number |-> pageList[current].annotations[k].number,
                      bounds |-> pageList[current].annotations[k].bounds,
                      feedback |-> pageList[current].annotations[k].feedback ] ] ] ],
      globalNotes |-> globalNotes ]

\* the payload sendToServer assembles: this.pages.map(...), globalNotes
buildPayload(pageList, current, imageData, globalNotes) ==
    [ action |-> "submit",
      pages |->
        [ i \in 1..Len(pageList) |->
            [ id |-> pageList[i].id,
              name |-> pageList[i].name,
              image |->
                IF i = current THEN toDataURL(imageData)
                ELSE IF Len(pageList[i].undoStack) > 0
                     THEN toDataURL(pageList[i].undoStack[Len(pageList[i].undoStack)].imageData)
                     ELSE << >>,
              width |-> CanvasWidth,
              height |-> CanvasHeight,
              annotations |->
                [ k \in 1..Len(pageList[i].annotations) |->
                    [ id |-> pageList[i].annotations[k].id,
                      type |-> pageList[i].annotations[k].type,
                      number |-> pageList[i].annotations[k].number,
                      bounds |-> pageList[i].annotations[k].bounds,
                      feedback |-> pageList[i].annotations[k].feedback ] ] ] ],
      globalNotes |-> globalNotes ]

\* String.prototype.length of the texts of the model
StringLength(text) == Len(text)

\* the length of the decimal digits of n in a template literal
Digits(n) == IF n < 10 THEN 1 ELSE IF n < 100 THEN 2 ELSE 3

\* JSON.stringify(payload) in sendToServer, then req.json() in the server: the
\* body as the server finds it.  A page named n is `Page ${n}`
toWire(payload) ==
    [ json |-> TRUE,
      action |-> payload.action,
      pagesIsArray |-> TRUE,
      pages |->
        [ i \in 1..Len(payload.pages) |->
            [ id |-> payload.pages[i].id,
              name |-> payload.pages[i].name,
              nameLength |-> 5 + Digits(payload.pages[i].name),
              image |-> payload.pages[i].image,
              width |-> payload.pages[i].width,
              height |-> payload.pages[i].height,
              annotations |->
                [ k \in 1..Len(payload.pages[i].annotations) |->
                    [ id |-> payload.pages[i].annotations[k].id,
                      type |-> payload.pages[i].annotations[k].type,
                      number |-> payload.pages[i].annotations[k].number,
                      bounds |-> payload.pages[i].annotations[k].bounds,
                      feedback |-> payload.pages[i].annotations[k].feedback,
                      feedbackLength |->
                        StringLength(payload.pages[i].annotations[k].feedback) ] ] ] ],
      notesPresent |-> TRUE,
      notesIsString |-> TRUE,
      globalNotes |-> payload.globalNotes,
      notesLength |-> StringLength(payload.globalNotes) ]

\* the user types in the notes textarea
NotesInput(text) ==
    /\ notes' = text
    /\ UNCHANGED <<canvasVars, viewVars, serverVars, sendDisabled, request, errorToast,
                   windowClosed>>

\* ShowMeCanvas.sendToServer up to its await: the send button is disabled, the
\* payload assembled and the request sent (a disabled button takes no click)
SendToServer ==
    /\ ~sendDisabled
    /\ sendDisabled' = TRUE
    /\ request' = buildPayload(pages, currentPageIndex, canvas, notes)
    /\ UNCHANGED <<canvasVars, viewVars, serverVars, notes, errorToast, windowClosed>>

\* sendToServer after the await, response.ok: window.close(), then finally
SendResponseOk ==
    /\ request # NoRequest
    /\ windowClosed' = TRUE
    /\ sendDisabled' = FALSE
    /\ request' = NoRequest
    /\ UNCHANGED <<canvasVars, viewVars, serverVars, notes, errorToast>>

\* a response handler whose failure branch leaves the send button disabled
SendResponseNotOkStaysDisabled ==
    /\ request # NoRequest
    /\ errorToast' = "Failed to send. Please try again."
    /\ request' = NoRequest
    /\ UNCHANGED <<canvasVars, viewVars, serverVars, notes, windowClosed, sendDisabled>>

\* sendToServer after the await, a response that is not ok: showError, finally
SendResponseNotOk ==
    /\ request # NoRequest
    /\ errorToast' = "Failed to send. Please try again."
    /\ sendDisabled' = FALSE
    /\ request' = NoRequest
    /\ UNCHANGED <<canvasVars, viewVars, serverVars, notes, windowClosed>>

\* sendToServer when fetch throws: the catch block (showError), then finally
SendThrows ==
    /\ request # NoRequest
    /\ errorToast' = "Network error. Please check your connection."
    /\ sendDisabled' = FALSE
    /\ request' = NoRequest
    /\ UNCHANGED <<canvasVars, viewVars, serverVars, notes, windowClosed>>

\* the dismiss button of the error toast, or its 5 s timeout
ErrorDismiss ==
    /\ errorToast # ""
    /\ errorToast' = ""
    /\ UNCHANGED <<canvasVars, viewVars, serverVars, notes, sendDisabled, request,
                   windowClosed>>

\* ---- server --------------------------------------------------------------------------

VALID_ANNOTATION_TYPES == { "pin", "area", "arrow", "highlight" }

ExpectedOrigin == "http://localhost:port"
Origins == { "", ExpectedOrigin, "http://evil.example" }

\* a request body: json is whether it parses, pagesIsArray and notesIsString the
\* types found in it, notesPresent whether globalNotes is there at all.  A string
\* goes with its length (notesLength, nameLength, feedbackLength)
Body(action, pageList, globalNotes, notesIsString) ==
    [ json |-> TRUE, action |-> action, pagesIsArray |-> TRUE, pages |-> pageList,
      notesPresent |-> TRUE, notesIsString |-> notesIsString,
      globalNotes |-> globalNotes, notesLength |-> IF globalNotes = "" THEN 0 ELSE 1 ]

SentPage(id, annotationType) ==
    [ id |-> id, name |-> 1, nameLength |-> 6, image |-> toDataURL(Blank),
      width |-> CanvasWidth, height |-> CanvasHeight,
      annotations |-> << [ id |-> 1, type |-> annotationType, number |-> 1,
                           bounds |-> [ x |-> -4, y |-> -4, width |-> 28, height |-> 28 ],
                           feedback |-> "a", feedbackLength |-> 1 ] >> ]

RequestBodies ==
    { Body("submit", << SentPage(1, "pin") >>, "a", TRUE),
      Body("submit", << >>, "", TRUE),
      Body("submit", << SentPage(1, "circle") >>, "a", TRUE),
      Body("submit", [ i \in 1..MAX_PAGES |-> SentPage(i, "pin") ], "a", TRUE),
      Body("submit", [ i \in 1..(MAX_PAGES + 1) |-> SentPage(i, "pin") ], "a", TRUE),
      Body("submit", << [ SentPage(1, "pin") EXCEPT
                            !.annotations = [ k \in 1..(MAX_ANNOTATIONS_PER_PAGE + 1) |-> @[1] ] ] >>,
           "a", TRUE),
      Body("submit", << [ SentPage(1, "pin") EXCEPT
                            !.nameLength = MAX_PAGE_NAME_LENGTH + 1 ] >>, "a", TRUE),
      Body("submit", << [ SentPage(1, "pin") EXCEPT
                            !.annotations[1].feedbackLength = MAX_FEEDBACK_LENGTH + 1 ] >>,
           "a", TRUE),
      [ Body("submit", << SentPage(1, "pin") >>, "a", TRUE) EXCEPT
          !.notesLength = MAX_GLOBAL_NOTES_LENGTH + 1 ],
      Body("submit", << SentPage(1, "pin") >>, "a", FALSE),
      Body("cancel", << SentPage(1, "pin") >>, "a", TRUE),
      [ Body("submit", << >>, "", TRUE) EXCEPT !.json = FALSE ],
      [ Body("submit", << >>, "", TRUE) EXCEPT !.pagesIsArray = FALSE ] }

\* a validation without the limit on the number of pages
validateSubmitPayloadAnyPages(data) ==
    /\ data.action = "submit"
    /\ data.pagesIsArray
    /\ data.notesPresent =>
         (data.notesIsString /\ ~(data.notesLength > MAX_GLOBAL_NOTES_LENGTH))
    /\ \A i \in 1..Len(data.pages) :
         /\ ~(data.pages[i].nameLength > MAX_PAGE_NAME_LENGTH)
         /\ ~(Len(data.pages[i].annotations) > MAX_ANNOTATIONS_PER_PAGE)
         /\ \A k \in 1..Len(data.pages[i].annotations) :
              /\ data.pages[i].annotations[k].type \in VALID_ANNOTATION_TYPES
              /\ ~(data.pages[i].annotations[k].feedbackLength > MAX_FEEDBACK_LENGTH)

\* validateSubmitPayload, for bodies whose pages and annotations are objects
\* with fields of the right type
validateSubmitPayload(data) ==
    /\ data.action = "submit"
    /\ data.pagesIsArray
    /\ ~(Len(data.pages) > MAX_PAGES)
    /\ data.notesPresent =>
         (data.notesIsString /\ ~(data.notesLength > MAX_GLOBAL_NOTES_LENGTH))
    /\ \A i \in 1..Len(data.pages) :
         /\ ~(data.pages[i].nameLength > MAX_PAGE_NAME_LENGTH)
         /\ ~(Len(data.pages[i].annotations) > MAX_ANNOTATIONS_PER_PAGE)
         /\ \A k \in 1..Len(data.pages[i].annotations) :
              /\ data.pages[i].annotations[k].type \in VALID_ANNOTATION_TYPES
              /\ ~(data.pages[i].annotations[k].feedbackLength > MAX_FEEDBACK_LENGTH)

Allow(payload) ==
    [ behavior |-> "allow", pages |-> payload.pages, globalNotes |-> payload.globalNotes ]

Deny == [ behavior |-> "deny", message |-> "User cancelled ShowMe" ]

\* a resolve function that settles the promise again on every call
resolveOverwrite(current, output) == output

\* resolvePromise(output): a promise is settled by the first call only
resolvePromise(current, output) == IF current = NoResult THEN output ELSE current

Response(n, kind, status) == [ n |-> n, kind |-> kind, status |-> status ]

\* fetch for POST /api/submit, up to `await req.json()`: the origin check, then
\* the body is read
SubmitRequest(origin, body) ==
    /\ ~stopped
    /\ arrived < MaxRequests
    /\ arrived' = arrived + 1
    /\ IF origin # "" /\ origin # ExpectedOrigin
       THEN /\ responses' = Append(responses, Response(arrived + 1, "submit", 403))
            /\ UNCHANGED pending
       ELSE /\ pending' = pending \cup { [ n |-> arrived + 1, body |-> body ] }
            /\ UNCHANGED responses
    /\ UNCHANGED <<canvasVars, viewVars, sendVars, result, stdout, stopped>>

\* fetch for POST /api/submit after `await req.json()`: a request in flight is
\* answered even after server.stop()
SubmitBody(r) ==
    /\ r \in pending
    /\ pending' = pending \ { r }
    /\ IF ~r.body.json
       THEN /\ responses' = Append(responses, Response(r.n, "submit", 400))
            /\ UNCHANGED result
       ELSE IF ~validateSubmitPayload(r.body)
       THEN /\ responses' = Append(responses, Response(r.n, "submit", 400))
            /\ UNCHANGED result
       ELSE /\ result' = resolvePromise(result, Allow(r.body))
            /\ responses' = Append(responses, Response(r.n, "submit", 200))
    /\ UNCHANGED <<canvasVars, viewVars, sendVars, stdout, stopped, arrived>>

\* fetch for POST /api/cancel
CancelRequest(origin) ==
    /\ ~stopped
    /\ arrived < MaxRequests
    /\ arrived' = arrived + 1
    /\ IF origin # "" /\ origin # ExpectedOrigin
       THEN /\ responses' = Append(responses, Response(arrived + 1, "cancel", 403))
            /\ UNCHANGED result
       ELSE /\ result' = resolvePromise(result, Deny)
            /\ responses' = Append(responses, Response(arrived + 1, "cancel", 200))
    /\ UNCHANGED <<canvasVars, viewVars, sendVars, stdout, stopped, pending>>

\* main after `await resultPromise`: server.stop(), console.log(result)
MainResumes ==
    /\ result # NoResult
    /\ ~stopped
    /\ stopped' = TRUE
    /\ stdout' = Append(stdout, result)
    /\ UNCHANGED <<canvasVars, viewVars, sendVars, result, pending, arrived, responses>>

\* ---- specifications ---------------------------------------------------------------

\* no pointer gesture is in progress
Idle == ~isDrawing /\ ~isCreatingAnnotation

\* the document has fewer than MaxPages pages
Room == Len(pages) < MaxPages

\* no gesture is in progress and the feedback modal is closed
Free == Idle /\ currentFeedbackAnnotationId = NoId

\* The user's side, in every specification below.  While the pointer is held in
\* a gesture, the events that can arrive are the gesture's own, key presses and
\* the completion of an image load.  The feedback modal, opened by a creation,
\* covers the page: until it is closed the pointer reaches only the modal, and
\* keys still reach onKeyDown.

\* Spec: drawing, pin annotations, history and pages
Next ==
    \/ Free /\ \E tool \in ToolChoices : SetTool(tool)
    \/ Free /\ ToggleAnnotationMode
    \/ Free /\ OnMouseDown
    \/ \E i \in 1..MaxInk : OnMouseMove(i)
    \/ \E i \in 1..MaxInk : OnMouseUp(i)
    \/ Free /\ \E point \in PointSet : OnAnnotationMouseDown(point)
    \/ \E point \in PointSet : OnAnnotationMouseUp(point)
    \/ Idle /\ SkipAnnotationFeedback
    \/ OnKeyDownDelete
    \/ Undo
    \/ Redo
    \/ Free /\ Clear
    \/ \E i \in 1..MaxInk : DrawAndSave(i)
    \/ LoadImage
    \/ Free /\ \E index \in 1..MaxPages : SwitchToPage(index)
    \/ Room /\ \E background \in BOOLEAN : AddPage(background)
    \/ Free /\ \E index \in 1..MaxPages : DeletePage(index)

Spec == Init /\ [][Next]_vars

\* HistSpec: one page, a long history of alternating paste and clear
HistInit == InitWith(HistCommits)

HistNext ==
    \/ Free /\ canvas = Blank /\ DrawAndSave(1)
    \/ Free /\ canvas # Blank /\ Clear
    \/ Undo
    \/ Redo

HistSpec == HistInit /\ [][HistNext]_vars

\* PageHistSpec: the long history of HistSpec on two pages
PageHistInit == InitWith(PageHistCommits)

PageHistNext ==
    \/ Free /\ canvas = Blank /\ DrawAndSave(1)
    \/ Free /\ canvas # Blank /\ Clear
    \/ Undo
    \/ Redo
    \/ Free /\ Room /\ AddPage(FALSE)
    \/ Free /\ \E index \in 1..MaxPages : SwitchToPage(index)

PageHistSpec == PageHistInit /\ [][PageHistNext]_vars

\* DeckSpec: up to DeckPages pages with ink and pins, added, visited and deleted
DeckInit == InitWith(DeckCommits)

DeckNext ==
    \/ Free /\ ToggleAnnotationMode
    \/ Free /\ \E point \in PointSet : OnAnnotationMouseDown(point)
    \/ \E point \in PointSet : OnAnnotationMouseUp(point)
    \/ Idle /\ SkipAnnotationFeedback
    \/ Free /\ \E i \in 1..MaxInk : DrawAndSave(i)
    \/ Free /\ Len(pages) < DeckPages /\ AddPage(FALSE)
    \/ Free /\ \E index \in 1..DeckPages : SwitchToPage(index)
    \/ Free /\ \E index \in 1..DeckPages : DeletePage(index)

DeckSpec == DeckInit /\ [][DeckNext]_vars

\* ImportSpec: image imports whose decode completes at any later moment, among
\* page additions, switches and deletions
ImportInit == InitWith(ImportCommits)

ImportNext ==
    \/ Free /\ \E kind \in ImportKinds : RequestImport(kind)
    \/ \E import \in decoding : ImageLoaded(import)
    \/ \E import \in decoding, i \in 1..MaxInk : ImagePasted(import, i)
    \/ Free /\ Room /\ AddPage(FALSE)
    \/ Free /\ \E index \in 1..MaxPages : SwitchToPage(index)
    \/ Free /\ \E index \in 1..MaxPages : DeletePage(index)
    \/ Undo
    \/ Redo

ImportSpec == ImportInit /\ [][ImportNext]_vars

\* GestureSpec: one page, annotation gestures of the four types
GestureInit == InitWith(GestureCommits)

GestureNext ==
    \/ Free /\ \E type \in AnnotationTypes : SetAnnotationTool(type)
    \/ Free /\ \E point \in GesturePoints : OnAnnotationMouseDown(point)
    \/ \E point \in GesturePoints : OnAnnotationMouseMove(point)
    \/ \E point \in GesturePoints : OnAnnotationMouseUp(point)
    \/ Idle /\ SkipAnnotationFeedback
    \/ Free /\ Undo
    \/ Free /\ Redo

GestureSpec == GestureInit /\ [][GestureNext]_vars

\* FeedbackSpec: pin annotations and the three feedback editors
FeedbackInit == InitWith(FeedbackCommits)

FeedbackNext ==
    \/ Free /\ ToggleAnnotationMode
    \/ Free /\ \E point \in PointSet : OnAnnotationMouseDown(point)
    \/ \E point \in PointSet : OnAnnotationMouseUp(point)
    \/ Free /\ \E i \in 1..FeedbackCommits : SidebarSelect(i)
    \/ Free /\ \E i \in 1..FeedbackCommits, text \in SidebarTexts : SidebarInput(i, text)
    \/ Free /\ \E text \in EditorTexts : PopoverInput(text)
    \/ Free /\ PopoverSave
    \/ Free /\ PopoverClose
    \/ Idle /\ \E text \in EditorTexts : ModalInput(text)
    \/ Idle /\ SaveAnnotationFeedback
    \/ Idle /\ SkipAnnotationFeedback
    \/ OnKeyDownEscape
    \/ OnKeyDownDelete
    \/ Free /\ \E i \in 1..FeedbackCommits : SidebarDelete(i)
    \/ Undo
    \/ Redo
    \/ Free /\ \E index \in 1..MaxPages : SwitchToPage(index)

FeedbackSpec == FeedbackInit /\ [][FeedbackNext]_vars

\* the pan offset stays within the bound after a mouse move to client
PanWithin(client) ==
    /\ panOffset.x + (client.x - lastPanPoint.x) \in -MaxPan..MaxPan
    /\ panOffset.y + (client.y - lastPanPoint.y) \in -MaxPan..MaxPan

\* ViewSpec: zoom and pan
ViewInit == InitWith(0)

ViewNext ==
    \/ ZoomIn
    \/ ZoomOut
    \/ \E deltaY \in { -1, 1 } : OnWheel(deltaY)
    \/ ZoomReset
    \/ \E containerWidth \in ContainerWidths, containerHeight \in ContainerHeights :
         ZoomFit(containerWidth, containerHeight)
    \/ SpaceDown
    \/ SpaceUp
    \/ ~isPanning /\ \E button \in { 0, 1 }, client \in PanClients : StartPan(button, client)
    \/ \E client \in PanClients : PanWithin(client) /\ DoPan(client)
    \/ EndPan

ViewSpec == ViewInit /\ [][ViewNext]_vars

\* the drawing tools of DrawSpec: a freehand tool, a shape tool and the text tool
DrawTools == { "pen", "rect", "text" }

\* DrawSpec: drawing gestures with three tools, the text prompt, pins, Escape,
\* Delete and panning
DrawInit == InitWith(DrawCommits)

DrawNext ==
    \/ Free /\ \E tool \in DrawTools : SetTool(tool)
    \/ Free /\ ToggleAnnotationMode
    \/ Free /\ OnMouseDown
    \/ \E i \in 1..MaxInk : OnMouseMove(i)
    \/ \E i \in 1..MaxInk : OnMouseUp(i)
    \/ \E text \in TextInputs, i \in 1..MaxInk : SubmitText(text, i)
    \/ Free /\ \E point \in PointSet : OnAnnotationMouseDown(point)
    \/ \E point \in PointSet : OnAnnotationMouseUp(point)
    \/ Idle /\ SkipAnnotationFeedback
    \/ OnKeyDownEscape
    \/ SpaceDown
    \/ SpaceUp
    \/ ~isPanning /\ \E button \in { 0, 1 }, client \in PanClients : StartPan(button, client)
    \/ \E client \in PanClients : PanWithin(client) /\ DoPan(client)
    \/ EndPan

DrawSpec == DrawInit /\ [][DrawNext]_vars

\* PanSpec: zoom and pan next to drawing and annotation gestures
PanInit == InitWith(PanCommits)

PanNext ==
    \/ Free /\ ToggleAnnotationMode
    \/ Free /\ OnMouseDown
    \/ \E i \in 1..MaxInk : OnMouseMove(i)
    \/ \E i \in 1..MaxInk : OnMouseUp(i)
    \/ Free /\ \E point \in PointSet : OnAnnotationMouseDown(point)
    \/ \E point \in PointSet : OnAnnotationMouseUp(point)
    \/ Idle /\ SkipAnnotationFeedback
    \/ OnKeyDownEscape
    \/ SpaceDown
    \/ SpaceUp
    \/ ~isPanning /\ \E button \in { 0, 1 }, client \in PanClients : StartPan(button, client)
    \/ \E client \in PanClients : PanWithin(client) /\ DoPan(client)
    \/ EndPan
    \/ ZoomIn
    \/ ZoomOut
    \/ \E deltaY \in { -1, 1 } : OnWheel(deltaY)
    \/ ZoomReset
    \/ \E containerWidth \in ContainerWidths, containerHeight \in ContainerHeights :
         ZoomFit(containerWidth, containerHeight)

PanSpec == PanInit /\ [][PanNext]_vars

\* ServerSpec: the server's requests in any interleaving; the continuation of
\* main is a job of the event loop and runs once the promise is settled
ServerInit == InitWith(0)

ServerNext ==
    \/ \E origin \in Origins, body \in RequestBodies : SubmitRequest(origin, body)
    \/ \E r \in pending : SubmitBody(r)
    \/ \E origin \in Origins : CancelRequest(origin)
    \/ MainResumes

ServerSpec == ServerInit /\ [][ServerNext]_vars /\ WF_vars(MainResumes)

\* the window has not been closed by a successful submission
Open == ~windowClosed

\* SubmitSpec: pins with feedback on two pages, notes, and the submit request;
\* nothing happens in a window that was closed
SubmitInit == InitWith(SubmitCommits)

SubmitNext ==
    \/ Open /\ Free /\ ToggleAnnotationMode
    \/ Open /\ Free /\ \E point \in PointSet : OnAnnotationMouseDown(point)
    \/ Open /\ \E point \in PointSet : OnAnnotationMouseUp(point)
    \/ Open /\ Idle /\ SkipAnnotationFeedback
    \/ Open /\ Free /\ \E i \in 1..SubmitCommits, text \in SidebarTexts : SidebarInput(i, text)
    \/ Open /\ Free /\ Room /\ AddPage(FALSE)
    \/ Open /\ Free /\ \E index \in 1..MaxPages : SwitchToPage(index)
    \/ Open /\ \E text \in SidebarTexts : NotesInput(text)
    \/ Open /\ Free /\ SendToServer
    \/ Open /\ SendResponseOk
    \/ Open /\ SendResponseNotOk
    \/ Open /\ SendThrows
    \/ Open /\ ErrorDismiss

SubmitSpec == SubmitInit /\ [][SubmitNext]_vars

\* LimitSpec: pages are added up to LimitPages, the first LimitSwitch of them
\* are visited, and the document is submitted at any moment
LimitInit == InitWith(LimitCommits)

LimitNext ==
    \/ Open /\ Len(pages) < LimitPages /\ AddPage(FALSE)
    \/ Open /\ \E index \in 1..LimitSwitch : SwitchToPage(index)
    \/ Open /\ SendToServer
    \/ Open /\ SendResponseOk
    \/ Open /\ SendResponseNotOk
    \/ Open /\ SendThrows
    \/ Open /\ ErrorDismiss

LimitSpec == LimitInit /\ [][LimitNext]_vars

\* ProbeSpec: the gestures of GestureSpec up to the first annotation, which is
\* then probed at every pointer position of ProbePoints
ProbeInit == InitWith(ProbeCommits)

ProbeNext ==
    \/ Free /\ \E type \in AnnotationTypes : SetAnnotationTool(type)
    \/ Free /\ \E point \in GesturePoints : OnAnnotationMouseDown(point)
    \/ \E point \in GesturePoints : OnAnnotationMouseMove(point)
    \/ \E point \in GesturePoints : OnAnnotationMouseUp(point)
    \/ Idle /\ SkipAnnotationFeedback
    \/ Free /\ Undo
    \/ Free /\ Redo

ProbeSpec == ProbeInit /\ [][ProbeNext]_vars

\* HitSpec: one page, overlapping annotations, selection from the sidebar
HitInit == InitWith(GestureCommits)

HitNext ==
    \/ Free /\ \E type \in { "pin", "area", "arrow" } : SetAnnotationTool(type)
    \/ Free /\ \E point \in GesturePoints : OnAnnotationMouseDown(point)
    \/ \E point \in GesturePoints : OnAnnotationMouseUp(point)
    \/ Idle /\ SkipAnnotationFeedback
    \/ Free /\ \E i \in 1..GestureCommits : SidebarSelect(i)

HitSpec == HitInit /\ [][HitNext]_vars

\* ---- properties ------------------------------------------------------------------

\* the live state of the active page as a snapshot, now and after a step
Live == [ imageData |-> canvas, annotations |-> currentPage.annotations ]
LiveAfter == [ imageData |-> canvas', annotations |-> pages'[currentPageIndex'].annotations ]

\* a step that stays on one page
SamePage ==
    /\ Len(pages') = Len(pages)
    /\ currentPageIndex' = currentPageIndex
    /\ pages'[currentPageIndex].id = currentPage.id

\* a step that calls saveState
CommitStep == budget' < budget

\* a step that moves the top of the undo stack to the redo stack
UndoStep ==
    /\ SamePage /\ ~CommitStep
    /\ Len(pages'[currentPageIndex].undoStack) = Len(currentPage.undoStack) - 1
    /\ Len(pages'[currentPageIndex].redoStack) = Len(currentPage.redoStack) + 1

\* a step that moves the top of the redo stack to the undo stack
RedoStep ==
    /\ SamePage /\ ~CommitStep
    /\ Len(pages'[currentPageIndex].undoStack) = Len(currentPage.undoStack) + 1
    /\ Len(pages'[currentPageIndex].redoStack) = Len(currentPage.redoStack) - 1

\* a step that creates an annotation on the active page
CreateStep == nextId' = nextId + 1 /\ Len(pages') = Len(pages)

\* the annotation a CreateStep has added
Created == pages'[currentPageIndex].annotations[Len(pages'[currentPageIndex].annotations)]

\* a step that changes the active page or the page list
PageChange == currentPageIndex' # currentPageIndex \/ Len(pages') # Len(pages)

\* the numbers of a list of annotations
Numbers(annotations) == { annotations[i].number : i \in 1..Len(annotations) }

\* one more than the greatest number of a list of annotations, 1 for none
MaxPlusOne(annotations) ==
    IF annotations = <<>> THEN 1
    ELSE 1 + (CHOOSE m \in Numbers(annotations) : \A n \in Numbers(annotations) : m >= n)

\* the numbers a page's history holds: live, in undo and in redo snapshots
NumbersOfPage(page) ==
    Numbers(page.annotations)
      \cup UNION { Numbers(page.undoStack[k].annotations) : k \in 1..Len(page.undoStack) }
      \cup UNION { Numbers(page.redoStack[k].annotations) : k \in 1..Len(page.redoStack) }

\* C1: with the undo stack ending in S1, S2, an undo makes the live pixels and
\* annotations those of S1 and puts S2 on top of the redo stack; a redo makes
\* the live pixels and annotations those of the snapshot on top of the redo
\* stack, S2 right after that undo, and puts it back on the undo stack.
C1_UndoRedoRoundTrip ==
    [][ /\ UndoStep =>
             LET n == Len(currentPage.undoStack)
                 S1 == currentPage.undoStack[n - 1]
                 S2 == currentPage.undoStack[n]
             IN  /\ LiveAfter = S1
                 /\ pages'[currentPageIndex].undoStack = SubSeq(currentPage.undoStack, 1, n - 1)
                 /\ pages'[currentPageIndex].redoStack = Append(currentPage.redoStack, S2)
        /\ RedoStep =>
             LET m == Len(currentPage.redoStack)
                 S2 == currentPage.redoStack[m]
             IN  /\ LiveAfter = S2
                 /\ pages'[currentPageIndex].undoStack = Append(currentPage.undoStack, S2)
                 /\ pages'[currentPageIndex].redoStack = SubSeq(currentPage.redoStack, 1, m - 1)
      ]_vars

\* an undo has acted: the live state is the snapshot S1 on top of the undo
\* stack, and the snapshot S2 on top of the redo stack holds an annotation more
C1_Witness ==
    /\ Len(currentPage.undoStack) >= 1 /\ Len(currentPage.redoStack) >= 1
    /\ Live = currentPage.undoStack[Len(currentPage.undoStack)]
    /\ Len(currentPage.redoStack[Len(currentPage.redoStack)].annotations)
         > Len(currentPage.annotations)

\* C2: every step that commits a snapshot leaves the active page's redo stack
\* empty, so that a redo right after it changes nothing.
C2_CommitClearsRedo ==
    [][ CommitStep =>
          /\ pages'[currentPageIndex'].redoStack = <<>>
          /\ redo(pages'[currentPageIndex'], canvas')
               = [ page |-> pages'[currentPageIndex'], canvas |-> canvas' ]
      ]_vars

\* a commit has followed an undo: on the only page ever made, two snapshots were
\* committed, both creations (ids 2 and 3, numbers 1 and 2); the undo stack
\* holds the first snapshot and the second creation only, the redo stack is empty
C2_Witness ==
    /\ Len(pages) = 1 /\ nextId = 4 /\ budget = MaxCommits - 2
    /\ Len(currentPage.undoStack) = 2
    /\ currentPage.redoStack = <<>>
    /\ Len(currentPage.annotations) = 1
    /\ currentPage.annotations[1].id = 3
    /\ currentPage.annotations[1].number = 2

\* C3: no undo stack is longer than 15; a commit appends the snapshot of the
\* live state and keeps the last 15 snapshots, in order, dropping the oldest;
\* an undo only shortens the stack, so a dropped snapshot is never restored.
C3_HistoryBound ==
    /\ [](\A p \in 1..Len(pages) : Len(pages[p].undoStack) <= 15)
    /\ [][ CommitStep /\ SamePage =>
             LET pushed == Append(currentPage.undoStack, LiveAfter)
                 n == Len(pushed)
             IN  pages'[currentPageIndex].undoStack
                   = SubSeq(pushed, IF n > 15 THEN n - 14 ELSE 1, n)
         ]_vars
    /\ [][ UndoStep =>
             pages'[currentPageIndex].undoStack
               = SubSeq(currentPage.undoStack, 1, Len(currentPage.undoStack) - 1)
         ]_vars

\* more than 15 snapshots were committed and the stack holds 15
C3_Witness ==
    /\ Len(currentPage.undoStack) = 15
    /\ HistCommits - budget >= 15

\* C4: no page's undo stack is empty; with one snapshot on the active page's undo
\* stack undo changes nothing, and with an empty redo stack redo changes nothing.
C4_BoundaryNoOps ==
    /\ \A p \in 1..Len(pages) : Len(pages[p].undoStack) >= 1
    /\ Len(currentPage.undoStack) = 1 =>
         undo(currentPage, canvas) = [ page |-> currentPage, canvas |-> canvas ]
    /\ currentPage.redoStack = <<>> =>
         redo(currentPage, canvas) = [ page |-> currentPage, canvas |-> canvas ]

\* undo has walked back to the first snapshot: one snapshot is on the undo
\* stack, it is the live state, and the undone ones are on the redo stack
C4_Witness ==
    /\ Len(currentPage.undoStack) = 1
    /\ Len(currentPage.redoStack) >= 2
    /\ Live = currentPage.undoStack[1]

\* a step that deletes an annotation of the active page
DeleteAnnotationStep ==
    /\ SamePage /\ CommitStep
    /\ Len(pages'[currentPageIndex].annotations) = Len(currentPage.annotations) - 1

\* a step of switchToPage: a click on a page, a new page, a deleted page
SwitchStep ==
    \/ \E index \in 1..MaxPages : SwitchToPage(index)
    \/ Room /\ \E background \in BOOLEAN : AddPage(background)
    \/ \E index \in 1..MaxPages : DeletePage(index)

\* C5 as the specification states it: a new annotation's number is one more than
\* the greatest number among the annotations present on the page when it is
\* created, 1 when there is none.
C5_MaxPlusOne ==
    [][ CreateStep => Created.number = MaxPlusOne(currentPage.annotations) ]_vars

\* C5: a new annotation's number is the value of the numbering counter, which the
\* creation then advances by one; a step that changes the active page or the
\* page list sets the counter to one more than the greatest number among the
\* annotations of the page it lands on, 1 for none; deleting an annotation,
\* undo and redo leave the counter as it is.
C5_NumberFromCounter ==
    [][ /\ CreateStep =>
             /\ Created.number = nextAnnotationNumber
             /\ nextAnnotationNumber' = nextAnnotationNumber + 1
        /\ PageChange =>
             nextAnnotationNumber' = MaxPlusOne(pages'[currentPageIndex'].annotations)
        /\ (DeleteAnnotationStep \/ UndoStep \/ RedoStep) =>
             nextAnnotationNumber' = nextAnnotationNumber
      ]_vars

\* an annotation was just created on a page with no annotation and got number
\* 2: the last snapshot but one holds none, the last holds it alone, and the
\* feedback modal is still open on it
C5_Witness ==
    LET n == Len(currentPage.undoStack)
    IN  /\ n >= 2
        /\ currentPage.undoStack[n - 1].annotations = <<>>
        /\ Len(currentPage.annotations) = 1
        /\ currentPage.annotations[1].number = 2
        /\ currentFeedbackAnnotationId = currentPage.annotations[1].id
        /\ Live = currentPage.undoStack[n]

\* C6: on every page, no two annotations have the same number.
C6_UniqueWithinPage ==
    \A p \in 1..Len(pages) :
      \A i, j \in 1..Len(pages[p].annotations) :
        i # j => pages[p].annotations[i].number # pages[p].annotations[j].number

\* C7 as the specification states it: a new annotation's number is greater than
\* every number assigned before on the page, those of deleted and of undone
\* annotations included: greater than every number the page's live annotations
\* and its undo and redo snapshots hold.
C7_NeverReused ==
    [][ CreateStep => \A n \in NumbersOfPage(currentPage) : Created.number > n ]_vars

\* C7: the numbering counter goes down only in a step of switchToPage; in every
\* other step it stays or grows, and a creation takes a number no less than the
\* counter and leaves the counter above it.  So between two page switches the
\* numbers given out grow strictly, whatever was deleted or undone in between.
C7_CounterMonotoneBetweenSwitches ==
    [][ /\ nextAnnotationNumber' < nextAnnotationNumber => SwitchStep
        /\ CreateStep =>
             /\ Created.number >= nextAnnotationNumber
             /\ nextAnnotationNumber' > Created.number
      ]_vars

\* number 1 was given and its annotation deleted, and the next creation, with no
\* page switch in between, got number 2: the undo stack holds the first
\* snapshot, the one with number 1, the one after the deletion, the one with
\* number 2
C7_Witness ==
    /\ Len(pages) = 1 /\ nextId = 4
    /\ Len(currentPage.undoStack) = 4
    /\ Numbers(currentPage.undoStack[2].annotations) = { 1 }
    /\ currentPage.undoStack[3].annotations = <<>>
    /\ Numbers(currentPage.undoStack[4].annotations) = { 2 }

\* C8: no two annotations of the document, on one page or on two, have the same
\* number.
C8_UniqueAcrossPages ==
    \A p, q \in 1..Len(pages) :
      \A i \in 1..Len(pages[p].annotations), j \in 1..Len(pages[q].annotations) :
        (p # q \/ i # j) =>
          pages[p].annotations[i].number # pages[q].annotations[j].number

\* C9: while no gesture is in progress, the snapshot on top of the active page's
\* undo stack is the live state: the pixels of the canvas and the annotations,
\* feedback included.
C9_TopIsLive ==
    Idle => currentPage.undoStack[Len(currentPage.undoStack)] = Live

\* the gestures createAnnotation is to reject
Degenerate(type, start, endPoint, points) ==
    \/ type = "area" /\ (Abs(endPoint.x - start.x) < 10 \/ Abs(endPoint.y - start.y) < 10)
    \/ type = "arrow" /\ DistSq(start, endPoint) < 20 * 20
    \/ type = "highlight" /\ Len(points) < 3

\* C10: a pointer-up that ends a degenerate annotation gesture (an area less than
\* 10 wide or high, an arrow shorter than 20, a highlight of fewer than 3
\* points) adds no annotation, commits no snapshot, leaves the undo and redo
\* stacks and the canvas as they were, and ends the gesture.
C10_DegenerateRejected ==
    [][ \A point \in GesturePoints :
          ( /\ OnAnnotationMouseUp(point)
            /\ Degenerate(currentAnnotationType, startPoint, point, highlightPoints) )
          => /\ pages' = pages
             /\ canvas' = canvas
             /\ budget' = budget
             /\ nextId' = nextId
             /\ ~isCreatingAnnotation'
             /\ highlightPoints' = <<>>
      ]_vars

\* a gesture was rejected while the redo stack held a snapshot: the counter has
\* advanced twice, one annotation was created, its creation is undone and on the
\* redo stack, and no gesture is in progress
C10_Witness ==
    /\ ~isCreatingAnnotation
    /\ nextAnnotationNumber = 3 /\ nextId = 3
    /\ Len(currentPage.redoStack) = 1
    /\ currentPage.annotations = <<>>

\* C11: the document has at least one page and the active index points at one;
\* with exactly one page no deletePage step is possible (the call returns at
\* once), and a step that removes a page removes one of at least two.
C11_AtLeastOnePage ==
    /\ Len(pages) >= 1
    /\ currentPageIndex \in 1..Len(pages)
    /\ Len(pages) = 1 => \A index \in 1..MaxPages : ~ENABLED DeletePage(index)

\* a page was added and the first page deleted: one page remains, and it is not
\* the page the constructor made
C11_Witness ==
    /\ Len(pages) = 1
    /\ pages[1].id # 1

\* the indices of the annotations a point strikes
Struck(point, annotations) ==
    { i \in 1..Len(annotations) : isHit(point, annotations[i]) }

\* C12: for every pointer position, HitTester.test returns the struck annotation
\* of greatest list index, and none exactly when none is struck; of two pins
\* at (10,10) and (14,12), in this order, a point within both radii gives the
\* second.
C12_TopmostWins ==
    /\ \A point \in GesturePoints :
         LET struck == Struck(point, currentPage.annotations)
             hit == HitTest(point, currentPage.annotations)
         IN  /\ hit = 0 <=> struck = {}
             /\ struck # {} => hit \in struck /\ \A j \in struck : j <= hit
    /\ LET A == buildAnnotation("pin", NoPoint, Pt(10, 10), <<>>, 1, 1)
           B == buildAnnotation("pin", NoPoint, Pt(14, 12), <<>>, 2, 2)
       IN  /\ HitTest(Pt(12, 11), << A, B >>) = 2
           /\ HitTest(Pt(12, 11), << B, A >>) = 2
           /\ HitTest(Pt(40, 40), << A, B >>) = 0

\* the page holds two pins, a pointer position strikes both, and the test
\* returns the later one
C12_Witness ==
    /\ Len(currentPage.annotations) = 2
    /\ currentPage.annotations[1].type = "pin"
    /\ currentPage.annotations[2].type = "pin"
    /\ \E point \in GesturePoints :
         /\ Struck(point, currentPage.annotations) = { 1, 2 }
         /\ HitTest(point, currentPage.annotations) = 2

\* the struck annotation renderAll draws last, 0 if none is struck
DrawnOnTop(point, annotations, selectedId) ==
    LET order == renderAll(annotations, selectedId)
        at == { k \in 1..Len(order) : order[k] \in Struck(point, annotations) }
    IN  IF at = {} THEN 0 ELSE order[CHOOSE k \in at : \A m \in at : m <= k]

\* C13: for every pointer position, the annotation HitTester.test returns is
\* the one renderAll draws last among those the position strikes, whichever
\* annotation is selected.
C13_HitMatchesZOrder ==
    \A point \in GesturePoints :
      HitTest(point, currentPage.annotations)
        = DrawnOnTop(point, currentPage.annotations, selectedAnnotationId)

\* C14: a step that keeps the page list and the active page (a commit, an undo,
\* a redo, the creation or deletion of an annotation) leaves the undo stack,
\* the redo stack and the annotations of every other page as they were.
C14_PerPageHistory ==
    [][ (Len(pages') = Len(pages) /\ currentPageIndex' = currentPageIndex) =>
          \A q \in 1..Len(pages) :
            q # currentPageIndex =>
              /\ pages'[q].undoStack = pages[q].undoStack
              /\ pages'[q].redoStack = pages[q].redoStack
              /\ pages'[q].annotations = pages[q].annotations
      ]_vars

\* two pages with history of their own: the other page holds an annotation and
\* two snapshots or more, and the active page was committed to after it was made
C14_Witness ==
    /\ Len(pages) = 2
    /\ \E q \in 1..2 :
         /\ q # currentPageIndex
         /\ Len(pages[q].undoStack) >= 2
         /\ Len(pages[q].annotations) >= 1
    /\ Len(currentPage.undoStack) >= 2

\* a step of sendToServer that puts a request on the wire
SendStep == request = NoRequest /\ request' # NoRequest

\* C15: the payload sendToServer builds has exactly one entry per page of the
\* document, in page order, each with the page's id and name and, for every
\* annotation of the page's live collection in the same order, its id, type,
\* number, bounds and current feedback, and it carries the global notes; no
\* annotation is left out or sent twice.
C15_PayloadMirrorsDocument ==
    [][ SendStep =>
          /\ request'.action = "submit"
          /\ request'.globalNotes = notes
          /\ Len(request'.pages) = Len(pages)
          /\ \A p \in 1..Len(pages) :
                LET sent == request'.pages[p]
                    live == pages[p].annotations
                IN  /\ sent.id = pages[p].id
                    /\ sent.name = pages[p].name
                    /\ Len(sent.annotations) = Len(live)
                    /\ \A k \in 1..Len(live) :
                          /\ sent.annotations[k].id = live[k].id
                          /\ sent.annotations[k].type = live[k].type
                          /\ sent.annotations[k].number = live[k].number
                          /\ sent.annotations[k].bounds = live[k].bounds
                          /\ sent.annotations[k].feedback = live[k].feedback
      ]_vars

\* a request on the wire for a document of two pages with notes, whose pages
\* hold different numbers of annotations, one of them with feedback
C15_Witness ==
    /\ request # NoRequest
    /\ request.globalNotes # ""
    /\ Len(request.pages) = 2
    /\ Len(request.pages[1].annotations) # Len(request.pages[2].annotations)
    /\ \E p \in 1..2 : \E k \in 1..Len(request.pages[p].annotations) :
         request.pages[p].annotations[k].feedback # ""

\* a step in which the submit request ends without closing the window: a
\* response that is not ok, or a fetch that throws
FailStep == request # NoRequest /\ request' = NoRequest /\ ~windowClosed'

\* C16: when the submit request returns a status that is not a success, or
\* throws, the pages, annotations, undo and redo stacks and the active page are
\* as they were before sendToServer was called, an error notice is shown, and
\* the send button is enabled again, so that the submission can be sent again.
C16_FailureLeavesSession ==
    [][ /\ (SendStep \/ FailStep) =>
             /\ pages' = pages
             /\ currentPageIndex' = currentPageIndex
             /\ canvas' = canvas
        /\ FailStep =>
             /\ errorToast' # ""
             /\ ~sendDisabled'
      ]_vars

\* a failed submission of a document with an annotation: the notice is shown,
\* nothing is on the wire and the button is enabled
C16_Witness ==
    /\ errorToast # ""
    /\ request = NoRequest
    /\ ~sendDisabled
    /\ ~windowClosed
    /\ \E p \in 1..Len(pages) : Len(pages[p].annotations) >= 1

\* C19: for a pin in the submitted payload, bounds.x and bounds.y are the
\* pin's center, the canvas point at which the pin was placed.
C19_PinBoundsIsCenter ==
    [][ SendStep =>
          \A p \in 1..Len(pages) : \A k \in 1..Len(pages[p].annotations) :
            pages[p].annotations[k].type = "pin" =>
              /\ request'.pages[p].annotations[k].bounds.x = pages[p].annotations[k].position.x
              /\ request'.pages[p].annotations[k].bounds.y = pages[p].annotations[k].position.y
      ]_vars

\* C17: the server emits exactly one result for a session. The result is set
\* by the first terminal request that is accepted (a valid submit gives allow
\* with the submitted pages and notes, a cancel gives deny); no submit or
\* cancel handled afterwards, in any interleaving, changes the result or has
\* it written again; once set, the result is written.
C17_OneResult ==
    /\ [][ /\ result # NoResult => result' = result
           /\ stdout # <<>> => stdout' = stdout
           /\ Len(stdout') <= 1
           /\ stdout' # <<>> => stdout' = << result >>
           /\ (result = NoResult /\ result' # NoResult) =>
                \/ result' = Deny /\ arrived' = arrived + 1
                \/ \E r \in pending :
                     /\ r \notin pending'
                     /\ validateSubmitPayload(r.body)
                     /\ result' = [ behavior |-> "allow", pages |-> r.body.pages,
                                     globalNotes |-> r.body.globalNotes ]
         ]_vars
    /\ (result # NoResult) ~> (Len(stdout) = 1)

\* a cancel was accepted and written, and a valid submit that was in flight
\* was answered afterwards
C17_Witness ==
    /\ stdout = << Deny >>
    /\ \E i, j \in 1..Len(responses) :
         /\ i < j
         /\ responses[i].kind = "cancel" /\ responses[i].status = 200
         /\ responses[j].kind = "submit" /\ responses[j].status = 200

\* the bounds the geometry of annotation a calls for
BoundsFit(a) ==
    /\ a.bounds.width >= 0
    /\ a.bounds.height >= 0
    /\ CASE a.type = "pin" ->
              a.bounds = [ x |-> a.position.x - 14, y |-> a.position.y - 14,
                           width |-> 28, height |-> 28 ]
         [] a.type = "area" ->
              /\ a.bounds.x <= a.startPoint.x /\ a.bounds.x <= a.endPoint.x
              /\ a.bounds.x \in { a.startPoint.x, a.endPoint.x }
              /\ a.bounds.y <= a.startPoint.y /\ a.bounds.y <= a.endPoint.y
              /\ a.bounds.y \in { a.startPoint.y, a.endPoint.y }
              /\ a.bounds.width \in { a.endPoint.x - a.startPoint.x,
                                      a.startPoint.x - a.endPoint.x }
              /\ a.bounds.height \in { a.endPoint.y - a.startPoint.y,
                                       a.startPoint.y - a.endPoint.y }
         [] a.type = "arrow" ->
              /\ a.bounds.x + 10 <= a.startPoint.x /\ a.bounds.x + 10 <= a.endPoint.x
              /\ a.bounds.x + 10 \in { a.startPoint.x, a.endPoint.x }
              /\ a.bounds.y + 10 <= a.startPoint.y /\ a.bounds.y + 10 <= a.endPoint.y
              /\ a.bounds.y + 10 \in { a.startPoint.y, a.endPoint.y }
              /\ a.bounds.x + a.bounds.width - 10 >= a.startPoint.x
              /\ a.bounds.x + a.bounds.width - 10 >= a.endPoint.x
              /\ a.bounds.x + a.bounds.width - 10 \in { a.startPoint.x, a.endPoint.x }
              /\ a.bounds.y + a.bounds.height - 10 >= a.startPoint.y
              /\ a.bounds.y + a.bounds.height - 10 >= a.endPoint.y
              /\ a.bounds.y + a.bounds.height - 10 \in { a.startPoint.y, a.endPoint.y }
         [] OTHER ->
              /\ Len(a.points) >= 1
              /\ \A i \in 1..Len(a.points) :
                   /\ a.bounds.x + 15 <= a.points[i].x
                   /\ a.points[i].x <= a.bounds.x + a.bounds.width - 15
                   /\ a.bounds.y + 15 <= a.points[i].y
                   /\ a.points[i].y <= a.bounds.y + a.bounds.height - 15
              /\ \E i \in 1..Len(a.points) : a.points[i].x = a.bounds.x + 15
              /\ \E i \in 1..Len(a.points) : a.points[i].x = a.bounds.x + a.bounds.width - 15
              /\ \E i \in 1..Len(a.points) : a.points[i].y = a.bounds.y + 15
              /\ \E i \in 1..Len(a.points) : a.points[i].y = a.bounds.y + a.bounds.height - 15

AllFit(annotations) == \A k \in 1..Len(annotations) : BoundsFit(annotations[k])

C20_ScaleClamped == minScale <= scale /\ scale <= maxScale

\* a step that changes the view: the scale, the pan offset or the last pan point
ViewStep == scale' # scale \/ panOffset' # panOffset \/ lastPanPoint' # lastPanPoint

Switched(i) ==
    /\ currentPageIndex' = i
    /\ Len(pages'[i].undoStack) >= 1
    /\ canvas' = pages'[i].undoStack[Len(pages'[i].undoStack)].imageData
    /\ selectedAnnotationId' = NoId
    /\ nextAnnotationNumber' = MaxPlusOne(pages'[i].annotations)
    /\ \A q \in 1..Len(pages) :
         /\ pages'[q].undoStack = pages[q].undoStack
         /\ pages'[q].redoStack = pages[q].redoStack

\* C22: after switchToPage(i) with a valid index, page i is active, the live
\* surface is the raster of the snapshot on top of page i's undo stack, the
\* selection is cleared and the counter is one more than the greatest number
\* on page i (1 if it has none); the undo and redo stacks of all pages are as
\* before, except that a page without history (a page just added) receives
\* exactly one snapshot. With an index out of range nothing happens.
C22_PageSwitch ==
    [][ /\ \A index \in 1..MaxPages :
             SwitchToPage(index) => (Len(pages') = Len(pages) /\ Switched(index))
        /\ \A background \in BOOLEAN :
             AddPage(background) =>
               /\ Len(pages') = Len(pages) + 1
               /\ Switched(Len(pages'))
               /\ Len(pages'[Len(pages')].undoStack) = 1
               /\ pages'[Len(pages')].redoStack = <<>>
        /\ \A index \in 0..(MaxPages + 1) :
             index \notin 1..Len(pages) => ~ENABLED SwitchToPage(index)
      ]_vars

\* back on the first of two pages, each with an annotation of its own, the
\* page showing its last snapshot with a drawing in it and the counter at the
\* page's next number
C22_Witness ==
    /\ Len(pages) = 2
    /\ currentPageIndex = 1
    /\ Len(pages[1].annotations) >= 1
    /\ Len(pages[2].annotations) >= 1
    /\ Len(pages[2].undoStack) >= 2
    /\ selectedAnnotationId = NoId
    /\ nextAnnotationNumber = MaxPlusOne(pages[1].annotations)
    /\ canvas = pages[1].undoStack[Len(pages[1].undoStack)].imageData

\* C23: a pointer-up that ends a creating gesture whose geometry passes the
\* minimum-size rule appends exactly one annotation as the last element of the
\* active page's collection, selects it, opens its feedback editor, pushes
\* exactly one snapshot, which contains the new annotation, and leaves no
\* creating gesture in progress.
C23_CreationCommits ==
    [][ \A point \in GesturePoints :
          ( /\ OnAnnotationMouseUp(point)
            /\ ~Degenerate(currentAnnotationType, startPoint, point, highlightPoints) )
          => LET old == currentPage.annotations
                 new == pages'[currentPageIndex].annotations
                 last == new[Len(new)]
             IN  /\ currentPageIndex' = currentPageIndex
                 /\ Len(new) = Len(old) + 1
                 /\ SubSeq(new, 1, Len(old)) = old
                 /\ \A k \in 1..Len(old) : old[k].id # last.id
                 /\ last.type = currentAnnotationType
                 /\ selectedAnnotationId' = last.id
                 /\ currentFeedbackAnnotationId' = last.id
                 /\ pages'[currentPageIndex].undoStack
                      = Append(currentPage.undoStack,
                               [ imageData |-> canvas, annotations |-> new ])
                 /\ budget' = budget - 1
                 /\ ~isCreatingAnnotation'
                 /\ highlightPoints' = <<>>
      ]_vars

\* a second annotation, not a pin, was just created: it is last, selected,
\* its editor is open and the top snapshot holds both annotations
C23_Witness ==
    /\ Len(currentPage.annotations) = 2
    /\ currentPage.annotations[2].type # "pin"
    /\ selectedAnnotationId = currentPage.annotations[2].id
    /\ currentFeedbackAnnotationId = currentPage.annotations[2].id
    /\ currentPage.undoStack[Len(currentPage.undoStack)].annotations
         = currentPage.annotations
    /\ ~isCreatingAnnotation

\* a pointer press that asks for a pan: the middle button, or any press while
\* space is held, on the drawing canvas or on the annotation canvas
PanPress ==
    \/ \E button \in { 0, 1 }, client \in PanClients : StartPan(button, client)
    \/ spaceHeld /\ OnMouseDown
    \/ spaceHeld /\ \E point \in PointSet : OnAnnotationMouseDown(point)

\* C24: a middle-button press, or a left-button press while space is held,
\* starts panning at any time, in drawing mode and in annotating mode, also
\* while a shape or annotation gesture is in progress, and neither starts nor
\* extends a shape or annotation gesture; the pointer-up that follows ends
\* panning and leaves the gesture state as it was.
C24_PanAnyTime ==
    [][ /\ PanPress =>
             /\ isPanning'
             /\ isDrawing' = isDrawing
             /\ isCreatingAnnotation' = isCreatingAnnotation
             /\ highlightPoints' = highlightPoints
             /\ selectedAnnotationId' = selectedAnnotationId
        /\ (isPanning /\ ~isPanning') =>
             /\ isDrawing' = isDrawing
             /\ isCreatingAnnotation' = isCreatingAnnotation
      ]_vars

\* C25: pressing Escape clears the selected annotation and closes the text
\* prompt, the feedback modal and the popover, and leaves the panning flag, a
\* shape gesture in progress, an annotation gesture in progress and the undo
\* and redo stacks of every page as they were.
C25_EscapeFrame ==
    [][ OnKeyDownEscape =>
          /\ selectedAnnotationId' = NoId
          /\ ~textModalOpen'
          /\ currentFeedbackAnnotationId' = NoId
          /\ popoverHidden'
          /\ isPanning' = isPanning
          /\ panOffset' = panOffset
          /\ isDrawing' = isDrawing
          /\ isCreatingAnnotation' = isCreatingAnnotation
          /\ startPoint' = startPoint
          /\ highlightPoints' = highlightPoints
          /\ canvas' = canvas
          /\ Len(pages') = Len(pages)
          /\ \A q \in 1..Len(pages) :
               /\ pages'[q].undoStack = pages[q].undoStack
               /\ pages'[q].redoStack = pages[q].redoStack
      ]_vars

\* Escape was pressed in the middle of a pan that interrupted a stroke, on a
\* page whose only annotation was selected: the selection is gone (nothing
\* else deselects it here), the editors are closed, pan and stroke go on
C25_Witness ==
    /\ isPanning /\ isDrawing
    /\ Len(currentPage.annotations) = 1
    /\ ~isCreatingAnnotation
    /\ selectedAnnotationId = NoId
    /\ currentFeedbackAnnotationId = NoId
    /\ popoverHidden
    /\ ~textModalOpen
    /\ Len(currentPage.undoStack) >= 2

\* C26: in every state in which a selection is present, also directly after an
\* undo or a redo, Delete or Backspace (no text input focused) removes the
\* selected annotation from the active page and commits exactly one snapshot.
C26_DeleteRemovesSelected ==
    selectedAnnotationId # NoId =>
      LET after == deleteAnnotation(currentPage, selectedAnnotationId, canvas)
      IN  /\ Len(after.annotations) = Len(currentPage.annotations) - 1
          /\ \A k \in 1..Len(after.annotations) :
               after.annotations[k].id # selectedAnnotationId
          /\ after.undoStack # currentPage.undoStack
          /\ after.undoStack[Len(after.undoStack)].annotations = after.annotations

\* C27: in drawing mode a pointer-down with a tool other than text starts a
\* drawing gesture, and the pointer-up (or the pointer leaving the canvas, or
\* the touch end) that ends it pushes exactly one snapshot and leaves no
\* gesture in progress; a pointer-down with the text tool opens the text
\* prompt and starts no gesture; a pointer-up with no gesture in progress
\* pushes no snapshot (it is no step at all).
C27_DrawingGesture ==
    [][ /\ (OnMouseDown /\ currentTool # "text") =>
             /\ isDrawing'
             /\ pages' = pages /\ canvas' = canvas
        /\ (OnMouseDown /\ currentTool = "text") =>
             /\ textModalOpen'
             /\ isDrawing' = isDrawing /\ ~isDrawing'
             /\ pages' = pages /\ canvas' = canvas
        /\ \A i \in 1..MaxInk :
             OnMouseUp(i) =>
               /\ isDrawing /\ ~isDrawing'
               /\ pages'[currentPageIndex].undoStack
                    = Append(currentPage.undoStack,
                             [ imageData |-> canvas',
                               annotations |-> currentPage.annotations ])
               /\ budget' = budget - 1
        /\ ~isDrawing => \A i \in 1..MaxInk : ~ENABLED OnMouseUp(i)
      ]_vars

\* a shape gesture was completed and committed, and the text tool's press has
\* opened the prompt with no gesture in progress
C27_Witness ==
    /\ currentTool = "text"
    /\ textModalOpen
    /\ ~isDrawing
    /\ ~annotationMode
    /\ currentPage.annotations = <<>>
    /\ Len(currentPage.undoStack) = 2
    /\ canvas = currentPage.undoStack[2].imageData
    /\ canvas # currentPage.undoStack[1].imageData

\* the ids of a list of annotations, in order
Ids(annotations) == [ k \in 1..Len(annotations) |-> annotations[k].id ]

\* a list without its k-th element
Without(ids, k) == SubSeq(ids, 1, k - 1) \o SubSeq(ids, k + 1, Len(ids))

\* a step of a drawing operation, a tool or mode change, or a page switch
DrawingOrSwitchStep ==
    \/ OnMouseDown
    \/ \E i \in 1..MaxInk : OnMouseMove(i) \/ OnMouseUp(i) \/ DrawAndSave(i)
    \/ Clear
    \/ LoadImage
    \/ \E tool \in Tools : SetTool(tool)
    \/ ToggleAnnotationMode
    \/ \E index \in 1..MaxPages : SwitchToPage(index)
    \/ Room /\ \E background \in BOOLEAN : AddPage(background)

\* C28: the live collection of a page that stays in the document changes its
\* members or their order only on the active page and only by a creation
\* (one annotation appended), by the explicit deletion of one annotation, or
\* by an undo or redo that installs the annotations of a snapshot; drawing
\* operations (shape, pen, eraser, text, paste, clear, background import),
\* tool and mode changes and page switches never add, remove or reorder
\* annotations on any page.
C28_AnnotationLifecycle ==
    [][ /\ \A q \in 1..Len(pages), r \in 1..Len(pages') :
             ( /\ pages'[r].id = pages[q].id
               /\ Ids(pages'[r].annotations) # Ids(pages[q].annotations) )
             => /\ q = currentPageIndex /\ r = currentPageIndex'
                /\ \/ /\ CreateStep
                      /\ Ids(pages'[r].annotations)
                           = Append(Ids(pages[q].annotations), nextId)
                   \/ /\ CommitStep
                      /\ \E k \in 1..Len(pages[q].annotations) :
                           Ids(pages'[r].annotations)
                             = Without(Ids(pages[q].annotations), k)
                   \/ /\ UndoStep \/ RedoStep
                      /\ pages'[r].annotations
                           = pages'[r].undoStack[Len(pages'[r].undoStack)].annotations
        /\ DrawingOrSwitchStep =>
             /\ Len(pages') >= Len(pages)
             /\ \A q \in 1..Len(pages) :
                  Ids(pages'[q].annotations) = Ids(pages[q].annotations)
      ]_vars

\* an annotation was created and a drawing operation was committed after it:
\* the last two snapshots hold the same annotation and different rasters, and
\* the annotation is still live
C28_Witness ==
    /\ Len(currentPage.undoStack) >= 3
    /\ Len(currentPage.annotations) >= 1
    /\ LET n == Len(currentPage.undoStack)
       IN  /\ currentPage.undoStack[n].annotations = currentPage.annotations
           /\ currentPage.undoStack[n - 1].annotations = currentPage.annotations
           /\ currentPage.undoStack[n].imageData # currentPage.undoStack[n - 1].imageData

\* the bodies C29 lists as failing validation
FailsValidation(body) ==
    \/ body.action # "submit"
    \/ Len(body.pages) > 50
    \/ body.notesLength > 50000
    \/ \E i \in 1..Len(body.pages) :
         \/ Len(body.pages[i].annotations) > 100
         \/ body.pages[i].nameLength > 200
         \/ \E k \in 1..Len(body.pages[i].annotations) :
              \/ body.pages[i].annotations[k].type \notin { "pin", "area", "arrow", "highlight" }
              \/ body.pages[i].annotations[k].feedbackLength > 10000

ForeignOrigin(origin) == origin # "" /\ origin # ExpectedOrigin

LastResponse == responses'[Len(responses')]

\* C29: a POST whose Origin header is present and is not the server's own gets
\* 403; a submit body that is not JSON or fails validation (wrong action, more
\* than 50 pages, more than 100 annotations on a page, an annotation type
\* outside pin/area/arrow/highlight, a name, feedback or notes too long) gets
\* 400; in these cases the result stays unresolved if it was, the server goes
\* on serving, and a valid submit or cancel handled later is accepted.
C29_RejectionsDoNotEnd ==
    [][ /\ \A origin \in Origins :
             ( /\ ForeignOrigin(origin)
               /\ \/ CancelRequest(origin)
                  \/ \E body \in RequestBodies : SubmitRequest(origin, body) )
             => /\ Len(responses') = Len(responses) + 1
                /\ LastResponse.status = 403
                /\ result' = result /\ stopped' = stopped /\ pending' = pending
        /\ \A r \in pending :
             ( /\ SubmitBody(r)
               /\ ~r.body.json \/ FailsValidation(r.body) )
             => /\ Len(responses') = Len(responses) + 1
                /\ LastResponse = Response(r.n, "submit", 400)
                /\ result' = result /\ stopped' = stopped
        /\ \A r \in pending :
             ( /\ SubmitBody(r)
               /\ result = NoResult
               /\ r.body.json /\ r.body.pagesIsArray /\ r.body.notesIsString
               /\ ~FailsValidation(r.body) )
             => /\ LastResponse = Response(r.n, "submit", 200)
                /\ result'.behavior = "allow"
                /\ result'.pages = r.body.pages
        /\ (result = NoResult /\ CancelRequest(ExpectedOrigin)) =>
             /\ LastResponse.status = 200
             /\ result'.behavior = "deny"
        /\ result' = NoResult => ~stopped'
      ]_vars

\* a request of a foreign origin got 403, a body failing validation got 400,
\* and the valid submit handled after them was accepted
C29_Witness ==
    /\ Len(responses) = 3
    /\ responses[1].status = 403
    /\ responses[2].status = 400
    /\ responses[3] = Response(3, "submit", 200)
    /\ result.behavior = "allow"

\* C30: every payload sendToServer assembles is accepted by the server's
\* validateSubmitPayload: the document never exceeds the server's limits on
\* pages, annotations per page, and the lengths of feedback, names and notes.
C30_PayloadAccepted ==
    request # NoRequest => validateSubmitPayload(toWire(request))

\* the snapshots a page holds on its two stacks
Held(page) == Len(page.undoStack) + Len(page.redoStack)

\* C31: every page's undo stack has at least 1 entry, and its undo and redo
\* stacks together hold at most 15 snapshots; an undo or a redo moves one
\* snapshot between the two stacks, and a commit empties the redo stack.
C31_StacksBounded ==
    /\ [](\A p \in 1..Len(pages) :
            Len(pages[p].undoStack) >= 1 /\ Held(pages[p]) <= 15)
    /\ [][ /\ (UndoStep \/ RedoStep) => Held(pages'[currentPageIndex]) = Held(currentPage)
           /\ CommitStep => pages'[currentPageIndex'].redoStack = <<>>
         ]_vars

\* both pages hold 15 snapshots, the second one some of them on its redo stack
C31_Witness ==
    /\ Len(pages) = 2
    /\ Held(pages[1]) = 15
    /\ Held(pages[2]) = 15
    /\ Len(pages[2].redoStack) >= 2

\* a sequence back to front
Reverse(seq) == [ i \in 1..Len(seq) |-> seq[Len(seq) + 1 - i] ]

\* the snapshots a page holds, oldest first: the undo stack, then the undone ones
Timeline(page) == page.undoStack \o Reverse(page.redoStack)

\* the timeline is what is left of old after the snapshot was pushed on it
PushedOn(old, snapshot, timeline) ==
    \E k \in 1..(Len(old) + 1) :
       timeline = SubSeq(Append(old, snapshot), k, Len(old) + 1)

\* C32: a snapshot on an undo or redo stack never changes: in every step a page
\* that stays in the document keeps its snapshots as they are, moved between
\* its stacks at most; a commit on it keeps snapshots of its undo stack
\* unchanged and adds the copy of the live state.
C32_SnapshotsImmutable ==
    [][ \A p \in 1..Len(pages), q \in 1..Len(pages') :
          pages'[q].id = pages[p].id =>
            IF CommitStep /\ q = currentPageIndex'
            THEN /\ PushedOn(pages[p].undoStack, LiveAfter, pages'[q].undoStack)
                 /\ pages'[q].redoStack = <<>>
            ELSE Timeline(pages'[q]) = Timeline(pages[p])
      ]_vars

\* feedback was entered on an annotation after its creation was committed and
\* undone: the snapshot on the redo stack still holds the annotation without it
C32_Witness ==
    /\ Len(currentPage.undoStack) = 2
    /\ Len(currentPage.redoStack) = 1
    /\ Len(currentPage.annotations) = 1
    /\ currentPage.annotations[1].feedback = "a"
    /\ currentPage.undoStack[2].annotations[1].feedback = ""
    /\ Len(currentPage.redoStack[1].annotations) = 2

\* C33: an undo that is not a no-op, followed directly by a redo, leaves the
\* live annotations (numbers, geometry, feedback) and the live pixels as they
\* were before the undo, also when feedback was edited after the last commit.
C33_UndoRedoIdentity ==
    Len(currentPage.undoStack) > 1 =>
      LET undone == undo(currentPage, canvas)
          redone == redo(undone.page, undone.canvas)
      IN  /\ redone.page.annotations = currentPage.annotations
          /\ redone.canvas = canvas

\* an Escape, a popover close, a mouse-down on the annotation canvas or a page switch
HidingStep ==
    \/ OnKeyDownEscape
    \/ PopoverClose
    \/ \E point \in PointSet : OnAnnotationMouseDown(point)
    \/ \E index \in 1..Len(pages) : SwitchToPage(index)

\* C34: the feedback stored on an annotation is the text entered for it most
\* recently: an Escape, a popover close, a mouse-down on the canvas or a page
\* switch that happens while the popover is hidden (all it held was stored
\* when it was hidden) changes no annotation's feedback.
C34_HiddenPopoverKeepsFeedback ==
    [][ (popoverHidden /\ HidingStep) =>
          \A p \in 1..Len(pages) : pages'[p].annotations = pages[p].annotations
      ]_vars

\* a pointer-up that ends a gesture the minimum-size rule discards
RejectStep ==
    \E point \in GesturePoints :
       /\ OnAnnotationMouseUp(point)
       /\ Degenerate(currentAnnotationType, startPoint, point, highlightPoints)

\* C35: a rejected annotation gesture consumes no number: the number the next
\* creation on the page takes, the counter, is after the rejected gesture what
\* it was before it.
C35_RejectionKeepsNumber ==
    [][ RejectStep => nextAnnotationNumber' = nextAnnotationNumber ]_vars

\* C36: the selection is null or the id of an annotation of the active page's
\* live collection, in every state: after undo, redo, annotation deletion, page
\* switch and page deletion too.
C36_SelectionExists ==
    selectedAnnotationId = NoId
      \/ findIndex(currentPage.annotations, selectedAnnotationId) # 0

\* the ids of the pages of a list
PageIds(pageList) == { pageList[p].id : p \in 1..Len(pageList) }

\* a step that deletes a page other than the active one
DeleteOtherStep ==
    /\ Len(pages') = Len(pages) - 1
    /\ currentPage.id \in PageIds(pages')

\* C37: deleting a page other than the active one keeps the same page active:
\* the active page has the id it had, its pixels are on the canvas and the
\* counter is the one computed from its annotations.
C37_DeleteKeepsActive ==
    [][ DeleteOtherStep =>
          /\ pages'[currentPageIndex'].id = currentPage.id
          /\ canvas' = currentPage.undoStack[Len(currentPage.undoStack)].imageData
          /\ nextAnnotationNumber' = MaxPlusOne(currentPage.annotations)
      ]_vars

\* C38: while no gesture is in progress the undo button is enabled exactly when
\* the active page's undo stack has more than one snapshot, and the redo button
\* exactly when its redo stack is not empty, also after a switch to a page that
\* has history.
C38_ButtonsReflectPage ==
    Idle =>
      /\ ~actionButtons.undoDisabled <=> Len(currentPage.undoStack) > 1
      /\ ~actionButtons.redoDisabled <=> Len(currentPage.redoStack) > 0

\* the decode of an import completes in this step
DecodedIn(import) == import \in decoding /\ import \notin decoding'

\* C39: when the decode of a file import or of a clipboard image completes, the
\* background, the drawn image and the commit go to the page that was active
\* when the import was requested: every other page stays as it was, whatever
\* page switches, additions and deletions came in between.
C39_ImportReachesItsPage ==
    [][ \A import \in decoding :
          DecodedIn(import) =>
            \A p \in 1..Len(pages) :
               pages[p].id # import.page => pages'[p] = pages[p]
      ]_vars

\* the distance of p to the segment from a to b is at most tol: to a when the
\* segment has length 0 or the projection falls before a, to b when it falls
\* after b, to the line otherwise (on squares, with the cross product)
WithinOfSegment(p, a, b, tol) ==
    LET dot == (p.x - a.x) * (b.x - a.x) + (p.y - a.y) * (b.y - a.y)
        lenSq == DistSq(a, b)
        cross == (p.x - a.x) * (b.y - a.y) - (p.y - a.y) * (b.x - a.x)
    IN  IF a = b \/ dot <= 0 THEN DistSq(p, a) <= tol * tol
        ELSE IF dot >= lenSq THEN DistSq(p, b) <= tol * tol
        ELSE cross * cross <= tol * tol * lenSq

\* the precise test of an annotation's type
Precise(point, ann) ==
    CASE ann.type = "pin" -> DistSq(point, ann.position) <= 18 * 18
      [] ann.type = "area" ->
             /\ point.x >= ann.bounds.x - 5 /\ point.x <= ann.bounds.x + ann.bounds.width + 5
             /\ point.y >= ann.bounds.y - 5 /\ point.y <= ann.bounds.y + ann.bounds.height + 5
      [] ann.type = "arrow" -> WithinOfSegment(point, ann.startPoint, ann.endPoint, 10)
      [] ann.type = "highlight" ->
             \E i \in 1..(Len(ann.points) - 1) :
                WithinOfSegment(point, ann.points[i], ann.points[i + 1], 15)

\* C40: for every annotation createAnnotation produces and every pointer
\* position, the annotation is hit exactly when the precise test of its type
\* holds (pin: within 18 of the center; area: within the bounds padded by 5;
\* arrow: within 10 of the segment; highlight: within 15 of a path segment):
\* the padded bounds contain the precise region; a segment of length 0 is
\* tested as a point.
C40_PrecheckNeutral ==
    [][ CreateStep =>
          \A point \in ProbePoints :
             /\ isHit(point, Created) <=> Precise(point, Created)
             /\ Precise(point, Created) => inBounds(point, Created.bounds)
             /\ pointToLineDistanceLE(point, Created.position, Created.position, 10)
                  <=> DistSq(point, Created.position) <= 10 * 10
      ]_vars

\* a diagonal arrow was created: a pointer position in the corner of its bounds
\* passes the pre-check and is not hit, one at its tip is hit
C40_Witness ==
    /\ Len(currentPage.annotations) = 1
    /\ currentPage.annotations[1].type = "arrow"
    /\ currentPage.annotations[1].startPoint = Pt(10, 10)
    /\ currentPage.annotations[1].endPoint = Pt(40, 40)
    /\ inBounds(Pt(45, 5), currentPage.annotations[1].bounds)
    /\ ~isHit(Pt(45, 5), currentPage.annotations[1])
    /\ isHit(Pt(47, 47), currentPage.annotations[1])

====
